---- MODULE Spec2Model ----
(***************************************************************************)
(* S-Player, electron/main.js: the supervisor of the external mpv process  *)
(* and the bridge to its JSON IPC channel.                                 *)
(*                                                                         *)
(* The Electron main process is one event loop: every handler below runs   *)
(* to completion, so one action is one handler (or, for startMpv with a    *)
(* title edition, one of the two halves around its await).                 *)
(*                                                                         *)
(* Identities.  Every play / accepted switch-title request gets the next   *)
(* request id r = Len(procs)+1.  The process spawned by request r is       *)
(* process r, the connect chain started by its setTimeout is chain r, and  *)
(* the socket made by connectIpc(k) of chain r is socket <<r, k>>.         *)
(***************************************************************************)
EXTENDS Integers, Sequences, FiniteSets, TLC

VARIABLES
    mainWindow,            \* main.js:47  TRUE while the BrowserWindow exists
    mpvProcess,            \* main.js:48  process handle: Null or a request id
    ipcClient,             \* main.js:49  channel handle: NoSock or a socket id
    blurayTitles,          \* main.js:50  sequence of title records
    currentBlurayDevice,   \* main.js:51  NoPath or a path
    isPlayingContent,      \* main.js:52
    buffer,                \* main.js:480 decode buffer shared by all data handlers
    procs,                 \* one record per request: the process it spawned
    socks,                 \* every net.Socket made by connectIpc
    timers,                \* pending setTimeout(connectIpc) callbacks
    spawned,               \* the last call of spawn: the process made, the
                           \* startMpv filePath it was for, and its args
    out,                   \* upstream messages sent by the last handler
    call,                  \* the last handler run and what it returned
    hist                   \* history of the run (observation only)

vars == <<mainWindow, mpvProcess, ipcClient, blurayTitles, currentBlurayDevice,
          isPlayingContent, buffer, procs, socks, timers, spawned, out, call,
          hist>>

(***************************************************************************)
(* Bounds of the model (not program constants).                            *)
(***************************************************************************)
\* play / accepted switch-title requests in one run of Spec
MaxRequests == 3
\* net.connect calls in one run of Spec (SpecRetry runs the chain to its end)
MaxAttempts == 2

(***************************************************************************)
(* Program constants.                                                      *)
(***************************************************************************)
\* connectIpc: if (retries > 40) give up
RetryLimit == 40

Null == 0
NoSock == <<>>
NoPath == <<>>
NoEdition == -1

(***************************************************************************)
(* Paths and the file system.  A path is a sequence of name pieces, the    *)
(* last one its extension as typed.  Sizes are in MiB (TLC integers are    *)
(* 32 bit; bytes / 1024^3 > 10 is MiB > 10 * 1024).  A size of -1 stands  *)
(* for fs.statSync throwing.                                               *)
(***************************************************************************)
MkvSmall    == <<"movie", ".mkv">>
MkvMedium   == <<"concert", ".mkv">>
MkvMissing  == <<"gone", ".mkv">>
BdFolderBig == <<"disc", "BDMV", "STREAM", "00001", ".m2ts">>
BdFolder    == <<"disc", "BDMV">>
BdIso       == <<"film", ".iso">>
BdIsoUpper  == <<"FILM", ".ISO">>
DvdIso      == <<"dvd", ".iso">>
IsoAt10G    == <<"edge", ".iso">>
IsoMissing  == <<"lost", ".iso">>

Files == {MkvSmall, MkvMedium, MkvMissing, BdFolderBig, BdFolder, BdIso,
          BdIsoUpper, DvdIso, IsoAt10G, IsoMissing}

\* fs.statSync(filePath).size, in MiB
StatSizeMiB(path) ==
    CASE path = MkvSmall    -> 700
      [] path = MkvMedium   -> 6144
      [] path = MkvMissing  -> -1
      [] path = BdFolderBig -> 12288
      [] path = BdFolder    -> 0
      [] path = BdIso       -> 12288
      [] path = BdIsoUpper  -> 40960
      [] path = DvdIso      -> 4400
      [] path = IsoAt10G    -> 10240
      [] path = IsoMissing  -> -1
      [] OTHER              -> -1

\* String.prototype.toLowerCase on one piece of a path
LowerPiece(s) ==
    CASE s = ".ISO" -> ".iso"
      [] s = "FILM" -> "film"
      [] s = "BDMV" -> "bdmv"
      [] s = "STREAM" -> "stream"
      [] OTHER -> s

toLowerCase(path) == [i \in 1..Len(path) |-> LowerPiece(path[i])]

\* lower.endsWith('.iso')
isIsoPath(path) ==
    LET lower == toLowerCase(path)
    IN  Len(lower) > 0 /\ lower[Len(lower)] = ".iso"

(***************************************************************************)
(* startMpv: the argument vector.  An argument is a pair <<text, path>>:   *)
(* the literal text and, where the code interpolates filePath, the path    *)
(* (<<>> otherwise).                                                       *)
(***************************************************************************)
Flag(text) == <<text, <<>> >>

\* main.js:186-250, the fixed head of args
BaseArgs ==
    << Flag("--wid=<hwnd>"), Flag("--input-ipc-server=\\\\.\\pipe\\s-player-mpv"),
       Flag("--no-border"), Flag("--no-osc"), Flag("--no-osd-bar"),
       Flag("--keep-open=yes"), Flag("--hwdec=auto-safe"), Flag("--vo=gpu"),
       Flag("--gpu-api=auto"), Flag("--gpu-context=auto"),
       Flag("--hwdec-codecs=all"), Flag("--scale=ewa_lanczossharp"),
       Flag("--cscale=ewa_lanczossharp"), Flag("--dscale=mitchell"),
       Flag("--correct-downscaling=yes"), Flag("--linear-downscaling=yes"),
       Flag("--sigmoid-upscaling=yes"), Flag("--deband=yes"),
       Flag("--deband-iterations=2"), Flag("--deband-threshold=48"),
       Flag("--deband-range=16"), Flag("--deband-grain=48"),
       Flag("--interpolation=yes"), Flag("--video-sync=display-resample"),
       Flag("--tscale=oversample"), Flag("--ao=wasapi"),
       Flag("--audio-exclusive=no"), Flag("--audio-fallback-to-null=yes"),
       Flag("--sub-auto=fuzzy"), Flag("--sub-visibility=yes"),
       Flag("--alang=chi,zho,zh,cmn,chs,cht,sc,tc,cn,tw,yue,cantonese,mandarin,chinese,eng,en,jpn,ja"),
       Flag("--slang=chi,zho,zh,cmn,chs,cht,sc,tc,cn,tw,chinese,eng,en"),
       Flag("--force-window=immediate"), Flag("--cache=yes"),
       Flag("--demuxer-max-bytes=150M"), Flag("--demuxer-readahead-secs=20"),
       Flag("--audio-channels=auto"), Flag("--target-trc=auto"),
       Flag("--tone-mapping=hable"), Flag("--hdr-compute-peak=yes"),
       Flag("--target-prim=auto") >>

\* main.js:258-281, the cache tier pushed for a non-ISO source
CacheArgs(path) ==
    IF isIsoPath(path) THEN << >>
    ELSE LET size == StatSizeMiB(path)
         IN  IF size < 0
               THEN << Flag("--demuxer-max-bytes=200M"), Flag("--demuxer-readahead-secs=30") >>
             ELSE IF size > 10 * 1024
               THEN << Flag("--demuxer-max-bytes=500M"), Flag("--demuxer-readahead-secs=60") >>
             ELSE IF size > 5 * 1024
               THEN << Flag("--demuxer-max-bytes=300M"), Flag("--demuxer-readahead-secs=40") >>
             ELSE << Flag("--demuxer-max-bytes=150M"), Flag("--demuxer-readahead-secs=20") >>

\* main.js:284-289
CachePauseArgs ==
    << Flag("--cache-pause=yes"), Flag("--cache-pause-wait=3"),
       Flag("--cache-pause-initial=yes"), Flag("--demuxer-seekable-cache=yes") >>

\* a detection that takes an image of exactly 10GB for a bluray
SourceModeFromTen(path) ==
    IF isIsoPath(path)
      THEN IF StatSizeMiB(path) < 0 THEN "bluray"
           ELSE IF StatSizeMiB(path) >= 10 * 1024 THEN "bluray" ELSE "dvd"
      ELSE "file"

\* main.js:291-332: "bluray", "dvd" or "file"
SourceMode(path) ==
    IF isIsoPath(path)
      THEN IF StatSizeMiB(path) < 0 THEN "bluray"
           ELSE IF StatSizeMiB(path) > 10 * 1024 THEN "bluray" ELSE "dvd"
      ELSE "file"

\* a selector pushed only for a truthy edition
EditionArgsTruthy(edition) ==
    IF edition # NoEdition /\ edition # 0
      THEN << <<"--edition=", <<ToString(edition)>> >> >> ELSE << >>

\* `--edition=${titleEdition}`, pushed when titleEdition !== null
EditionArgs(edition) ==
    IF edition # NoEdition THEN << <<"--edition=", <<ToString(edition)>> >> >> ELSE << >>

\* main.js:291-332, the arguments naming the source
SourceArgs(path, edition) ==
    CASE SourceMode(path) = "bluray" ->
           << <<"--bluray-device=", path>> >> \o EditionArgs(edition)
              \o << Flag("bd://longest") >>
      [] SourceMode(path) = "dvd" ->
           << <<"--dvd-device=", path>>, Flag("dvd://longest") >>
      [] OTHER -> << <<"", path>> >>

\* the args passed to spawn (main.js:335)
BuildArgs(path, edition) ==
    BaseArgs \o CacheArgs(path) \o CachePauseArgs \o SourceArgs(path, edition)

\* main.js:300-304, 313, 320, 330: currentBlurayDevice after the mode branch
DeviceAfter(path) ==
    IF SourceMode(path) = "bluray" THEN path ELSE NoPath

\* main.js:297-303: the title list is emptied only in the >10GB ISO branch of
\* a request without an edition
TitlesAfter(path, edition, titles) ==
    IF isIsoPath(path) /\ StatSizeMiB(path) > 10 * 1024 /\ edition = NoEdition
      THEN << >> ELSE titles

(***************************************************************************)
(* The wire: what mpv writes to the pipe and what the 'data' handler of    *)
(* setupIpc does with it.                                                  *)
(*                                                                         *)
(* A read chunk is a Buffer, a sequence of bytes.  A byte is written as    *)
(* the text it stands for: one model byte is one ASCII run of the JSON     *)
(* text ("{", "}", a key with its fixed value, the "data": key, a value,   *)
(* the newline), and "C3" "A9" are the two bytes of U+00E9 in UTF-8.       *)
(* After data.toString() the buffer is a sequence of characters, written   *)
(* the same way, with "U+00E9" and "U+FFFD" for the two non-ASCII ones.    *)
(***************************************************************************)
NL == "\n"

\* Buffer.prototype.toString() (UTF-8) of one chunk, main.js:495.  An
\* incomplete or stray multi-byte sequence decodes to U+FFFD.
RECURSIVE Utf8Decode(_)
Utf8Decode(bytes) ==
    IF bytes = << >> THEN << >>
    ELSE IF bytes[1] = "C3"
      THEN IF Len(bytes) >= 2 /\ bytes[2] = "A9"
             THEN <<"U+00E9">> \o Utf8Decode(SubSeq(bytes, 3, Len(bytes)))
             ELSE <<"U+FFFD">> \o Utf8Decode(Tail(bytes))
    ELSE IF bytes[1] = "A9"
      THEN <<"U+FFFD">> \o Utf8Decode(Tail(bytes))
    ELSE <<bytes[1]>> \o Utf8Decode(Tail(bytes))

\* String.prototype.split('\n'), main.js:496: always at least one segment
RECURSIVE SplitLines(_)
SplitLines(text) ==
    IF \A i \in 1..Len(text) : text[i] # NL THEN <<text>>
    ELSE LET i == CHOOSE k \in 1..Len(text) :
                     text[k] = NL /\ \A j \in 1..(k-1) : text[j] # NL
         IN  <<SubSeq(text, 1, i - 1)>> \o SplitLines(SubSeq(text, i + 1, Len(text)))

\* A decoded msg.  A field that is absent is Undefined; data is the
\* sequence of characters of its value, NoData when absent.
Undefined == "undefined"
NoData == <<"undefined">>
NoRid == -1
EmptyMsg == [event |-> Undefined, name |-> Undefined, data |-> NoData,
             error |-> Undefined, request_id |-> NoRid]
DataValues == {"1", "U+00E9", "U+FFFD"}

\* the longest run of value characters at the head of chars
RECURSIVE ValueRun(_)
ValueRun(chars) ==
    IF chars # << >> /\ chars[1] \in DataValues
      THEN <<chars[1]>> \o ValueRun(Tail(chars))
      ELSE << >>

\* The members of one JSON object (a later key overrides an earlier one)
RECURSIVE ParseMembers(_, _)
ParseMembers(chars, msg) ==
    IF chars = << >> THEN [ok |-> TRUE, msg |-> msg]
    ELSE LET c == chars[1]
             rest == Tail(chars)
         IN  CASE c = "event:property-change" ->
                    ParseMembers(rest, [msg EXCEPT !.event = "property-change"])
               [] c = "event:file-loaded" ->
                    ParseMembers(rest, [msg EXCEPT !.event = "file-loaded"])
               [] c = "event:playback-restart" ->
                    ParseMembers(rest, [msg EXCEPT !.event = "playback-restart"])
               [] c = "event:seek" ->
                    ParseMembers(rest, [msg EXCEPT !.event = "seek"])
               [] c = "name:time-pos" ->
                    ParseMembers(rest, [msg EXCEPT !.name = "time-pos"])
               [] c = "error:success" ->
                    ParseMembers(rest, [msg EXCEPT !.error = "success"])
               [] c = "error:property unavailable" ->
                    ParseMembers(rest, [msg EXCEPT !.error = "property unavailable"])
               [] c = "request_id:0" ->
                    ParseMembers(rest, [msg EXCEPT !.request_id = 0])
               [] c = "request_id:7" ->
                    ParseMembers(rest, [msg EXCEPT !.request_id = 7])
               [] c = "data:" ->
                    LET v == ValueRun(rest)
                    IN  IF v # << >>
                          THEN ParseMembers(SubSeq(rest, Len(v) + 1, Len(rest)),
                                            [msg EXCEPT !.data = v])
                          ELSE [ok |-> FALSE, msg |-> msg]
               [] OTHER -> [ok |-> FALSE, msg |-> msg]

\* a parser that accepts an object without its closing brace
JsonParseUnclosed(line) ==
    IF Len(line) >= 2 /\ line[1] = "{"
      THEN ParseMembers(SelectSeq(Tail(line), LAMBDA c : c # "}"), EmptyMsg)
      ELSE [ok |-> FALSE, msg |-> EmptyMsg]

\* JSON.parse(line), main.js:502: ok = FALSE when it throws
JsonParse(line) ==
    IF Len(line) >= 2 /\ line[1] = "{" /\ line[Len(line)] = "}"
      THEN ParseMembers(SubSeq(line, 2, Len(line) - 1), EmptyMsg)
      ELSE [ok |-> FALSE, msg |-> EmptyMsg]

\* msg.request_id as a condition (main.js:509): 0 and undefined are falsy
Truthy(rid) == rid # NoRid /\ rid # 0

\* main.js:505-515: the upstream messages one decoded msg gives rise to
Dispatch(msg) ==
    IF msg.event = "property-change"
      THEN << <<"mpv-prop", "name", msg.name, msg.data>> >>
    ELSE IF msg.error = "success" /\ msg.data # NoData /\ Truthy(msg.request_id)
      THEN << <<"mpv-prop", "request_id", ToString(msg.request_id), msg.data>> >>
    ELSE IF msg.event = "file-loaded" \/ msg.event = "playback-restart"
      THEN << <<"mpv-ready">> >>
    ELSE << >>

\* main.js:499-517, the body of the loop for one line
DispatchLine(line) ==
    IF line = << >> THEN << >>
    ELSE LET p == JsonParse(line)
         IN  IF p.ok THEN Dispatch(p.msg) ELSE << >>

RECURSIVE DispatchLines(_)
DispatchLines(lines) ==
    IF lines = << >> THEN << >>
    ELSE DispatchLine(Head(lines)) \o DispatchLines(Tail(lines))

\* buffer = lines.pop(), main.js:497
KeepRemainder(lines) == lines[Len(lines)]

\* main.js:494-518, one run of the 'data' handler on the shared buffer
OnData(buf, chunk) ==
    LET lines == SplitLines(buf \o Utf8Decode(chunk))
    IN  [buffer |-> KeepRemainder(lines),
         events |-> DispatchLines(SubSeq(lines, 1, Len(lines) - 1))]

\* a socket with n 'data' handlers attached: each runs on the same chunk
RECURSIVE RunHandlers(_, _, _)
RunHandlers(n, buf, chunk) ==
    IF n = 0 THEN [buffer |-> buf, events |-> << >>]
    ELSE LET one == OnData(buf, chunk)
             more == RunHandlers(n - 1, one.buffer, chunk)
         IN  [buffer |-> more.buffer, events |-> one.events \o more.events]

\* Lines mpv may write (each ends with the newline)
LinePropChange == <<"{", "event:property-change", "name:time-pos", "data:", "C3", "A9", "}", NL>>
LinePropAscii  == <<"{", "event:property-change", "name:time-pos", "data:", "1", "}", NL>>
LineReply7     == <<"{", "data:", "1", "error:success", "request_id:7", "}", NL>>
LineReply0     == <<"{", "data:", "1", "error:success", "request_id:0", "}", NL>>
LineFileLoaded == <<"{", "event:file-loaded", "}", NL>>
LineRestart    == <<"{", "event:playback-restart", "}", NL>>
LineSeek       == <<"{", "event:seek", "}", NL>>
LineBroken     == <<"{", "event:property-change", NL>>
LineEmpty      == <<NL>>

WireLines == {LinePropChange, LinePropAscii, LineReply7, LineReply0,
              LineFileLoaded, LineRestart, LineSeek, LineBroken, LineEmpty}

(***************************************************************************)
(* The disc-title extractor, parseBlurayTitles (main.js:384-421).          *)
(*                                                                         *)
(* Diagnostic text is a sequence of characters, written as the pieces the  *)
(* pattern tells apart: the literal runs "--edition=", " 'title: ", " (",  *)
(* ") (" and ")'", single digits, ":", a playlist file name, the newline   *)
(* and other text.  Only ") (" and ")'" contain a ")".                     *)
(***************************************************************************)
Digits == {"0", "1", "2", "3", "4", "5", "6", "7", "8", "9"}

DigitValue(c) ==
    CASE c = "0" -> 0 [] c = "1" -> 1 [] c = "2" -> 2 [] c = "3" -> 3
      [] c = "4" -> 4 [] c = "5" -> 5 [] c = "6" -> 6 [] c = "7" -> 7
      [] c = "8" -> 8 [] c = "9" -> 9

\* the longest run of characters from set at the head of chars
RECURSIVE RunOf(_, _)
RunOf(chars, set) ==
    IF chars # << >> /\ chars[1] \in set
      THEN <<chars[1]>> \o RunOf(Tail(chars), set)
      ELSE << >>

\* the longest run of characters outside set at the head of chars
RECURSIVE RunNotOf(_, _)
RunNotOf(chars, set) ==
    IF chars # << >> /\ chars[1] \notin set
      THEN <<chars[1]>> \o RunNotOf(Tail(chars), set)
      ELSE << >>

\* parseInt(digits, 10), main.js:390-391
RECURSIVE DecimalValue(_, _)
DecimalValue(digits, acc) ==
    IF digits = << >> THEN acc
    ELSE DecimalValue(Tail(digits), acc * 10 + DigitValue(digits[1]))

parseInt(digits) == DecimalValue(digits, 0)

\* parseFloat(unit), main.js:406 and 415: the value of the leading digits,
\* NaN when there are none
NaN == -1

parseFloat(unit) ==
    LET lead == RunOf(unit, Digits)
    IN  IF lead = << >> THEN NaN ELSE DecimalValue(lead, 0)

\* String.prototype.split(':')
RECURSIVE SplitColon(_)
SplitColon(text) ==
    IF \A i \in 1..Len(text) : text[i] # ":" THEN <<text>>
    ELSE LET i == CHOOSE k \in 1..Len(text) :
                     text[k] = ":" /\ \A j \in 1..(k-1) : text[j] # ":"
         IN  <<SubSeq(text, 1, i - 1)>> \o SplitColon(SubSeq(text, i + 1, Len(text)))

\* reduce((acc, t) => acc * 60 + parseFloat(t), 0); NaN is absorbing
RECURSIVE FoldUnits(_, _)
FoldUnits(units, acc) ==
    IF units = << >> THEN acc
    ELSE LET v == parseFloat(units[1])
         IN  FoldUnits(Tail(units),
                       IF acc = NaN \/ v = NaN THEN NaN ELSE acc * 60 + v)

\* a conversion that reads the first unit only
toSecFirstUnit(d) == parseFloat(d)

\* toSec of the sort comparator, main.js:406
toSec(d) == FoldUnits(SplitColon(d), 0)

\* the conversion stored as durationSeconds, main.js:415
durationSecondsOf(d) == FoldUnits(SplitColon(d), 0)

ClosingPieces == {") (", ")'"}
PlaylistNames == {"00001.mpls", "00002.mpls", "00003.mpls"}

NoMatch == [ok |-> FALSE, next |-> 0, edition |-> 0, titleNum |-> 0,
            duration |-> << >>, playlist |-> ""]

\* the pattern of main.js:385 tried at position i of text:
\*   --edition=(\d+)\s+'title:\s*(\d+)\s*\(([^)]+)\)\s*\(([^)]+\.mpls)\)'
MatchAt(text, i) ==
    LET n == Len(text)
        rest(k) == SubSeq(text, k, n)
        ed == IF i + 1 <= n THEN RunOf(rest(i + 1), Digits) ELSE << >>
        a == i + 1 + Len(ed)             \* where " 'title: " must be
        tn == IF a + 1 <= n THEN RunOf(rest(a + 1), Digits) ELSE << >>
        b == a + 1 + Len(tn)             \* where " (" must be
        du == IF b + 1 <= n THEN RunNotOf(rest(b + 1), ClosingPieces) ELSE << >>
        c == b + 1 + Len(du)             \* where ") (" must be
    IN  IF /\ text[i] = "--edition="
           /\ ed # << >>
           /\ a <= n /\ text[a] = " 'title: "
           /\ tn # << >>
           /\ b <= n /\ text[b] = " ("
           /\ du # << >>
           /\ c + 2 <= n
           /\ text[c] = ") ("
           /\ text[c + 1] \in PlaylistNames
           /\ text[c + 2] = ")'"
          THEN [ok |-> TRUE, next |-> c + 3, edition |-> parseInt(ed),
                titleNum |-> parseInt(tn), duration |-> du,
                playlist |-> text[c + 1]]
          ELSE NoMatch

\* while ((match = regex.exec(buffer)) !== null): the matches, left to right
RECURSIVE Matches(_, _)
Matches(text, i) ==
    IF i > Len(text) THEN << >>
    ELSE LET m == MatchAt(text, i)
         IN  IF m.ok THEN <<m>> \o Matches(text, m.next)
             ELSE Matches(text, i + 1)

\* a scan that pushes every match
IsNewEditionAlways(titles, edition) == TRUE

\* main.js:396: !blurayTitles.find(t => t.edition === edition)
IsNewEdition(titles, edition) ==
    \A k \in 1..Len(titles) : titles[k].edition # edition

\* main.js:389-400: push every match whose edition is not in the list yet
RECURSIVE PushNew(_, _)
PushNew(titles, ms) ==
    IF ms = << >> THEN titles
    ELSE LET m == ms[1]
         IN  IF IsNewEdition(titles, m.edition)
               THEN PushNew(Append(titles,
                              [edition |-> m.edition, titleNum |-> m.titleNum,
                               duration |-> m.duration, playlist |-> m.playlist,
                               displayIndex |-> 0, isMain |-> FALSE,
                               durationSeconds |-> 0]),
                            Tail(ms))
               ELSE PushNew(titles, Tail(ms))

\* the comparator of main.js:405-408; a NaN difference counts as 0
Compare(a, b) ==
    IF toSec(b.duration) = NaN \/ toSec(a.duration) = NaN THEN 0
    ELSE toSec(b.duration) - toSec(a.duration)

\* t goes before the first element it is strictly smaller than (stable)
RECURSIVE InsertSorted(_, _)
InsertSorted(sorted, t) ==
    IF sorted = << >> THEN <<t>>
    ELSE IF Compare(t, sorted[1]) < 0
      THEN <<t>> \o sorted
      ELSE <<sorted[1]>> \o InsertSorted(Tail(sorted), t)

\* a list left in the order of discovery
SortTitlesNone(titles) == titles

\* a sort that keeps the newest title only
SortTitlesNewestOnly(titles) ==
    IF titles = << >> THEN << >> ELSE <<titles[Len(titles)]>>

\* Array.prototype.sort with that comparator (V8: stable), main.js:405
RECURSIVE SortTitles(_)
SortTitles(titles) ==
    IF titles = << >> THEN << >>
    ELSE InsertSorted(SortTitles(SubSeq(titles, 1, Len(titles) - 1)),
                      titles[Len(titles)])

\* main.js:411-416, the forEach
Annotate(titles) ==
    [i \in 1..Len(titles) |->
        [titles[i] EXCEPT !.displayIndex = i,
                          !.isMain = (i = 1),
                          !.durationSeconds = durationSecondsOf(titles[i].duration)]]

\* a scan that sends the list whenever it is not empty
ParseBlurayTitlesEager(titles, text) ==
    LET pushed == PushNew(titles, Matches(text, 1))
    IN  IF Len(pushed) > 0
          THEN LET list == Annotate(SortTitles(pushed))
               IN  [titles |-> list, out |-> << <<"bluray-titles", list>> >>]
          ELSE [titles |-> pushed, out |-> << >>]

\* parseBlurayTitles(buffer): the list afterwards and what is sent upstream
ParseBlurayTitles(titles, text) ==
    LET pushed == PushNew(titles, Matches(text, 1))
        found == Len(pushed) > Len(titles)
    IN  IF found /\ Len(pushed) > 0
          THEN LET list == Annotate(SortTitles(pushed))
               IN  [titles |-> list, out |-> << <<"bluray-titles", list>> >>]
          ELSE [titles |-> pushed, out |-> << >>]

\* What mpv prints for a disc title
Announce(edition, titleNum, duration, playlist) ==
    <<"--edition=">> \o edition \o <<" 'title: ">> \o titleNum \o <<" (">>
        \o duration \o <<") (", playlist, ")'", NL>>

AnnounceLong  == Announce(<<"0">>, <<"1">>, <<"1", ":", "0", "2", ":", "0", "3">>, "00001.mpls")
AnnounceShort == Announce(<<"1">>, <<"2">>, <<"0", ":", "4", "9">>, "00002.mpls")
AnnounceTie   == Announce(<<"2">>, <<"3">>, <<"0", ":", "4", "9">>, "00003.mpls")
AnnounceClip  == Announce(<<"1", "0">>, <<"4">>, <<"1", "2">>, "00003.m2ts")
NoiseLine     == <<"[bd] opening disc", NL>>

DiagLines == {AnnounceLong, AnnounceShort, AnnounceTie, AnnounceClip, NoiseLine}

(***************************************************************************)
(* The supervisor.                                                         *)
(*                                                                         *)
(* procs[r]: [st, path, edition, stdoutBuffer, stderrBuffer, stdoutPipe,    *)
(*   stderrPipe]; path and edition are the arguments of a suspended        *)
(*   startMpv call, NoPath and NoEdition once it has gone on; the buffers  *)
(*   are the closure variables of main.js:340-341, the pipes hold what the *)
(*   process has printed and the main process has not read yet             *)
(*   st = "settle"   startMpv(path, edition) is suspended in its 500 ms    *)
(*                   await (main.js:172), nothing spawned yet              *)
(*        "running"  spawned, alive                                        *)
(*        "killed"   kill() called, 'exit' callback not yet delivered      *)
(*        "exited"   'exit' callback delivered                             *)
(*        "aborted"  startMpv returned at main.js:175 without spawning     *)
(*        "failed"   the spawn failed: 'error' callback delivered          *)
(* socks[<<r,k>>]: [st, handlers, peer, wire, sent]                        *)
(*   st = "connecting" | "open" | "destroyed" (destroy() called, or the    *)
(*   peer closed) | "refused" (the connection failed: 'error' delivered,   *)
(*   the socket destroyed by Node); handlers = number of 'data' listeners  *)
(*   attached; peer = the process that accepted the connection; wire =     *)
(*   bytes mpv has written that have not been read yet; sent = the lines   *)
(*   written to the socket by sendCmd, in order                            *)
(* timers: records [chain, retries], one per pending                       *)
(*   setTimeout(() => connectIpc(retries))                                 *)
(***************************************************************************)
\* call: the last handler when it was a request of the renderer that the
\* properties tell apart (switch-title, stop, mpv-cmd) and what it returned,
\* NoCall after any other handler
NoCall == [op |-> "none", ret |-> "none"]

\* hist.b2b   the run so far is: play, then a second play while the first
\*            one's process was current and its connect timer pending
\* hist.idle  the current process has exited and no play or accepted
\*            switch-title request was made since
\* hist.lines number of lines mpv has written
\* hist.fed   bytes read from the channel since the last setupIpc
\* hist.disp  upstream messages sent by 'data' listeners since then
\* hist.seen  editions matched by a scan since the title list was last emptied
\* hist.cmds  the arrays passed to the mpv-cmd handler, in order
\* hist.pubs  the title lists sent upstream since the last fresh play or
\*            stop, in order
InitHist == [b2b |-> FALSE, idle |-> FALSE, lines |-> 0,
             fed |-> << >>, disp |-> << >>, seen |-> {}, cmds |-> << >>,
             pubs |-> << >>]

Init ==
    /\ mainWindow = TRUE
    /\ mpvProcess = Null
    /\ ipcClient = NoSock
    /\ blurayTitles = << >>
    /\ currentBlurayDevice = NoPath
    /\ isPlayingContent = FALSE
    /\ buffer = << >>
    /\ procs = << >>
    /\ socks = << >>
    /\ timers = {}
    /\ spawned = [proc |-> Null, source |-> NoPath, args |-> << >>]
    /\ out = << >>
    /\ call = NoCall
    /\ hist = InitHist

\* mainWindow?.webContents.send
SendIfWindow(msgs) == IF mainWindow THEN msgs ELSE << >>

\* socket.destroy(): no further event of that socket is delivered
Destroy(ss, id) ==
    IF id = NoSock THEN ss
    ELSE [ss EXCEPT ![id].st = IF @ \in {"connecting", "open"} THEN "destroyed" ELSE @]

\* mpvProcess.kill()
Kill(ps, p) ==
    IF p = Null THEN ps
    ELSE [ps EXCEPT ![p].st = IF @ = "running" THEN "killed" ELSE @]

\* main.js:157-168 of startMpv: what is sent before the old process is killed
SwitchingNotice(edition) ==
    IF edition # NoEdition THEN << <<"switching-title">> >> ELSE << >>

NewProc(path, edition) ==
    [st |-> "settle", path |-> path, edition |-> edition,
     stdoutBuffer |-> << >>, stderrBuffer |-> << >>,
     stdoutPipe |-> << >>, stderrPipe |-> << >>]

\* the title list is emptied: nothing has been seen since
SeenAfter(titles, seen) == IF titles = << >> THEN {} ELSE seen

\* main.js:175-373 of startMpv, for request r: the part after the await
SpawnPart(r, path, edition, ps) ==
    IF ~mainWindow
      THEN /\ procs' = [ps EXCEPT ![r] = [NewProc(NoPath, NoEdition)
                                            EXCEPT !.st = "aborted"]]
           /\ UNCHANGED <<mpvProcess, blurayTitles, currentBlurayDevice,
                          isPlayingContent, timers, spawned>>
      ELSE /\ procs' = [ps EXCEPT ![r] = [NewProc(NoPath, NoEdition)
                                            EXCEPT !.st = "running"]]
           /\ spawned' = [proc |-> r, source |-> path,
                          args |-> BuildArgs(path, edition)]
           /\ mpvProcess' = r
           /\ blurayTitles' = TitlesAfter(path, edition, blurayTitles)
           /\ currentBlurayDevice' = DeviceAfter(path)
           /\ isPlayingContent' = TRUE
           /\ timers' = timers \cup {[chain |-> r, retries |-> 0]}

\* ipcMain.handle('play'): startMpv(filePath), which runs to its end in one go
Play(path) ==
    LET r == Len(procs) + 1
    IN  /\ mainWindow
        /\ socks' = Destroy(socks, ipcClient)
        /\ ipcClient' = NoSock
        /\ SpawnPart(r, path, NoEdition,
                     Append(Kill(procs, mpvProcess), NewProc(path, NoEdition)))
        /\ out' = SwitchingNotice(NoEdition)
        /\ call' = NoCall
        /\ hist' = [hist EXCEPT
                      !.b2b = /\ r = 2
                              /\ [chain |-> 1, retries |-> 0] \in timers
                              /\ mpvProcess = 1,
                      !.idle = FALSE,
                      !.seen = SeenAfter(blurayTitles', @),
                      !.pubs = << >>]
        /\ UNCHANGED <<mainWindow, buffer>>

\* a handler without the guard
SwitchRejectedNever(device) == FALSE

\* main.js:569: if (!currentBlurayDevice) return false
SwitchRejected(device) == device = NoPath

\* ipcMain.handle('switch-title'): up to the await of startMpv(device, edition)
SwitchTitle(edition) ==
    /\ mainWindow
    /\ IF SwitchRejected(currentBlurayDevice)
         THEN /\ call' = [op |-> "switch-title", ret |-> "false"]
              /\ out' = << >>
              /\ UNCHANGED <<mainWindow, mpvProcess, ipcClient, blurayTitles,
                             currentBlurayDevice, isPlayingContent, buffer,
                             procs, socks, timers, spawned, hist>>
         ELSE /\ socks' = Destroy(socks, ipcClient)
              /\ ipcClient' = NoSock
              /\ out' = SwitchingNotice(edition)
              /\ procs' = Append(Kill(procs, mpvProcess),
                                 NewProc(currentBlurayDevice, edition))
              /\ mpvProcess' = Null
              /\ call' = [op |-> "switch-title", ret |-> "true"]
              /\ hist' = [hist EXCEPT !.b2b = FALSE, !.idle = FALSE]
              /\ UNCHANGED <<mainWindow, blurayTitles, currentBlurayDevice,
                             isPlayingContent, buffer, timers, spawned>>

\* the continuation of startMpv(device, edition) after its 500 ms await
SwitchResume(r) ==
    /\ r \in 1..Len(procs)
    /\ procs[r].st = "settle"
    /\ SpawnPart(r, procs[r].path, procs[r].edition, procs)
    /\ out' = << >>
    /\ call' = NoCall
    /\ hist' = [hist EXCEPT !.seen = SeenAfter(blurayTitles', @)]
    /\ UNCHANGED <<mainWindow, ipcClient, buffer, socks>>

\* killMpv, main.js:427-437, as used by stopPlayback
\* ipcMain.handle('stop'): stopPlayback, main.js:443-449
Stop ==
    /\ mainWindow
    /\ isPlayingContent' = FALSE
    /\ socks' = Destroy(socks, ipcClient)
    /\ ipcClient' = NoSock
    /\ procs' = Kill(procs, mpvProcess)
    /\ mpvProcess' = Null
    /\ blurayTitles' = << >>
    /\ currentBlurayDevice' = NoPath
    /\ out' = SendIfWindow(<< <<"mpv-closed">> >>)
    /\ call' = [op |-> "stop", ret |-> "undefined"]
    /\ hist' = [hist EXCEPT !.b2b = FALSE, !.seen = {}, !.pubs = << >>]
    /\ UNCHANGED <<mainWindow, buffer, timers, spawned>>

\* a retry loop that gives up one attempt early
GiveUpEarly(retries) == retries >= RetryLimit

\* a retry loop that allows one attempt more
GiveUpOffByOne(retries) == retries > RetryLimit + 1

\* a socket that counts as destroyed only after destroy() or a close
DestroyedByCloseOnly(sock) == sock.st = "destroyed"

\* socket.destroyed
Destroyed(sock) == sock.st \in {"destroyed", "refused"}

(***************************************************************************)
(* Commands.  A command is an array of strings and finite numbers, as the  *)
(* renderer passes them: [kind, chars, num] with kind "str" (chars = its   *)
(* characters) or "num" (num = its integer value).                         *)
(***************************************************************************)
Str(chars) == [kind |-> "str", chars |-> chars, num |-> 0]
Num(n) == [kind |-> "num", chars |-> << >>, num |-> n]

DigitChar(n) ==
    CASE n = 0 -> "0" [] n = 1 -> "1" [] n = 2 -> "2" [] n = 3 -> "3"
      [] n = 4 -> "4" [] n = 5 -> "5" [] n = 6 -> "6" [] n = 7 -> "7"
      [] n = 8 -> "8" [] n = 9 -> "9"

RECURSIVE DigitsOf(_)
DigitsOf(n) ==
    IF n < 10 THEN <<DigitChar(n)>>
    ELSE DigitsOf(n \div 10) \o <<DigitChar(n % 10)>>

\* JSON.stringify of a finite integer
StringifyNumber(n) == IF n < 0 THEN <<"-">> \o DigitsOf(-n) ELSE DigitsOf(n)

\* JSON.stringify of a string: quoted, with the quote and the backslash escaped
RECURSIVE EscapeChars(_)
EscapeChars(chars) ==
    IF chars = << >> THEN << >>
    ELSE (IF chars[1] \in {"\"", "\\"} THEN <<"\\", chars[1]>> ELSE <<chars[1]>>)
           \o EscapeChars(Tail(chars))

\* a serialisation that quotes without escaping
StringifyStringRaw(chars) == <<"\"">> \o chars \o <<"\"">>

StringifyString(chars) == <<"\"">> \o EscapeChars(chars) \o <<"\"">>

StringifyValue(e) ==
    IF e.kind = "str" THEN StringifyString(e.chars) ELSE StringifyNumber(e.num)

RECURSIVE StringifyElements(_)
StringifyElements(cmd) ==
    IF cmd = << >> THEN << >>
    ELSE IF Len(cmd) = 1 THEN StringifyValue(cmd[1])
    ELSE StringifyValue(cmd[1]) \o <<",">> \o StringifyElements(Tail(cmd))

\* JSON.stringify({ command: cmd }) + '\n', main.js:537
EncodeCommand(cmd) ==
    <<"{", "\"", "c", "o", "m", "m", "a", "n", "d", "\"", ":", "[">>
        \o StringifyElements(cmd) \o <<"]", "}", NL>>

\* a sendCmd that writes whatever the state of the channel
WritableAlways(ss, client) == client # NoSock

\* main.js:536: ipcClient && !ipcClient.destroyed
Writable(ss, client) == client # NoSock /\ ~Destroyed(ss[client])

\* sendCmd(cmd), main.js:535-541, on the sockets ss with channel handle client
sendCmd(ss, client, cmd) ==
    IF Writable(ss, client)
      THEN [socks |-> [ss EXCEPT ![client].sent = Append(@, EncodeCommand(cmd))],
            ret |-> "true"]
      ELSE [socks |-> ss, ret |-> "false"]

\* main.js:521-527
ObservedProps ==
    << <<"t", "i", "m", "e", "-", "p", "o", "s">>, <<"d", "u", "r", "a", "t", "i", "o", "n">>,
       <<"p", "a", "u", "s", "e">>, <<"v", "o", "l", "u", "m", "e">>, <<"m", "u", "t", "e">>,
       <<"track-list">>, <<"chapter-list">>, <<"chapter">>, <<"video-params">>,
       <<"audio-codec-name">>, <<"video-codec">>, <<"video-bitrate">>,
       <<"audio-bitrate">>, <<"a", "i", "d">>, <<"s", "i", "d">>,
       <<"paused-for-cache">>, <<"cache-buffering-state">> >>

ObserveCommand(i) ==
    <<Str(<<"observe_property">>), Num(i), Str(ObservedProps[i])>>

\* props.forEach((p, i) => sendCmd(['observe_property', i + 1, p])), main.js:528
RECURSIVE Subscribe(_, _, _)
Subscribe(ss, client, i) ==
    IF i > Len(ObservedProps) THEN ss
    ELSE Subscribe(sendCmd(ss, client, ObserveCommand(i)).socks, client, i + 1)

\* ipcMain.handle('mpv-cmd'), main.js:562
MpvCmd(cmd) ==
    /\ mainWindow
    /\ LET res == sendCmd(socks, ipcClient, cmd)
       IN  /\ socks' = res.socks
           /\ call' = [op |-> "mpv-cmd", ret |-> res.ret]
    /\ out' = << >>
    /\ hist' = [hist EXCEPT !.cmds = Append(@, cmd)]
    /\ UNCHANGED <<mainWindow, mpvProcess, ipcClient, blurayTitles,
                   currentBlurayDevice, isPlayingContent, buffer, procs,
                   timers, spawned>>

\* mainWindow.on('closed'), main.js:102-105: killMpv(); mainWindow = null
WindowClosed ==
    /\ socks' = Destroy(socks, ipcClient)
    /\ ipcClient' = NoSock
    /\ procs' = Kill(procs, mpvProcess)
    /\ mpvProcess' = Null
    /\ mainWindow' = FALSE

\* ipcMain.handle('win-close'), main.js:587: mainWindow?.close(), and the
\* 'close' listener, main.js:108-114
WinClose ==
    /\ mainWindow
    /\ call' = [op |-> "win-close", ret |-> "undefined"]
    /\ IF isPlayingContent
         THEN /\ out' = << <<"confirm-exit">> >>
              /\ UNCHANGED <<mainWindow, mpvProcess, ipcClient, procs, socks>>
         ELSE /\ out' = << >>
              /\ WindowClosed
    /\ UNCHANGED <<blurayTitles, currentBlurayDevice, isPlayingContent, buffer,
                   timers, spawned, hist>>

\* ipcMain.handle('win-force-close'), main.js:590-593
WinForceClose ==
    /\ mainWindow
    /\ call' = [op |-> "win-force-close", ret |-> "undefined"]
    /\ isPlayingContent' = FALSE
    /\ out' = << >>
    /\ WindowClosed
    /\ UNCHANGED <<blurayTitles, currentBlurayDevice, buffer, timers, spawned,
                   hist>>

\* main.js:461: if (retries > 40) return
GiveUp(retries) == retries > RetryLimit

\* a setTimeout callback fires: connectIpc(retries), main.js:460-477
ConnectIpc(t) ==
    /\ t \in timers
    /\ timers' = timers \ {t}
    /\ IF GiveUp(t.retries)
         THEN UNCHANGED <<ipcClient, socks>>
         ELSE /\ socks' = socks @@ (<<t.chain, t.retries>> :>
                            [st |-> "connecting", handlers |-> 0,
                             peer |-> Null, wire |-> << >>, sent |-> << >>])
              /\ ipcClient' = <<t.chain, t.retries>>
    /\ out' = << >>
    /\ call' = NoCall
    /\ UNCHANGED <<mainWindow, mpvProcess, blurayTitles, currentBlurayDevice,
                   isPlayingContent, buffer, procs, spawned, hist>>

\* the socket setupIpc attaches its 'data' listener to and sendCmd writes to:
\* the global ipcClient (main.js:494, 536), whichever socket has connected
SetupTarget(s) == ipcClient

\* socket s is accepted by process p: its 'connect' listener, main.js:468-471
\* (setupIpc throws a TypeError at main.js:494 when ipcClient is null)
SockConnect(s, p) ==
    /\ s \in DOMAIN socks /\ socks[s].st = "connecting"
    /\ p \in 1..Len(procs) /\ procs[p].st = "running"
    /\ buffer' = << >>
    /\ LET open == [socks EXCEPT ![s].st = "open", ![s].peer = p]
           target == SetupTarget(s)
       IN  IF target = NoSock
             THEN /\ socks' = open
                  /\ out' = << >>
                  /\ hist' = [hist EXCEPT !.fed = << >>, !.disp = << >>]
             ELSE /\ socks' = Subscribe([open EXCEPT ![target].handlers = @ + 1],
                                        target, 1)
                  /\ out' = << <<"mpv-ready">> >>
                  /\ hist' = [hist EXCEPT !.fed = << >>, !.disp = << >>]
    /\ call' = NoCall
    /\ UNCHANGED <<mainWindow, mpvProcess, ipcClient, blurayTitles,
                   currentBlurayDevice, isPlayingContent, procs, timers, spawned>>

\* the connection of socket s is refused: its 'error' listener, main.js:473-476
SockError(s) ==
    /\ s \in DOMAIN socks /\ socks[s].st = "connecting"
    /\ socks' = [socks EXCEPT ![s].st = "refused"]
    /\ timers' = timers \cup {[chain |-> s[1], retries |-> s[2] + 1]}
    /\ out' = << >>
    /\ call' = NoCall
    /\ UNCHANGED <<mainWindow, mpvProcess, ipcClient, blurayTitles,
                   currentBlurayDevice, isPlayingContent, buffer, procs, spawned, hist>>

\* what the 'exit' listener sends upstream (main.js:363-369: nothing)
ExitNotice == << >>

\* mpvProcess.on('exit'), main.js:363-369, for process p
ExitHandler(p) ==
    /\ procs' = [procs EXCEPT ![p].st = "exited"]
    /\ mpvProcess' = Null
    /\ socks' = Destroy(socks, ipcClient)
    /\ ipcClient' = NoSock
    /\ out' = ExitNotice
    /\ call' = NoCall
    /\ hist' = [hist EXCEPT !.idle = IF mpvProcess = p THEN TRUE ELSE @]
    /\ UNCHANGED <<mainWindow, blurayTitles, currentBlurayDevice,
                   isPlayingContent, buffer, timers, spawned>>

\* process p ends on its own (crash, quit, end of input)
ProcExit(p) ==
    /\ p \in 1..Len(procs) /\ procs[p].st = "running"
    /\ ExitHandler(p)

\* the 'exit' of a process ended by kill() is delivered
KilledExit(p) ==
    /\ p \in 1..Len(procs) /\ procs[p].st = "killed"
    /\ ExitHandler(p)

\* the spawn of process p has failed: its 'error' listener, main.js:356-359
SpawnError(p) ==
    /\ p \in 1..Len(procs) /\ procs[p].st = "running"
    /\ \A s \in DOMAIN socks : socks[s].peer # p
    /\ procs[p].stdoutPipe = << >> /\ procs[p].stderrPipe = << >>
    /\ procs[p].stdoutBuffer = << >> /\ procs[p].stderrBuffer = << >>
    /\ procs' = [procs EXCEPT ![p].st = "failed"]
    /\ out' = SendIfWindow(<< <<"mpv-error">> >>)
    /\ call' = NoCall
    /\ UNCHANGED <<mainWindow, mpvProcess, ipcClient, blurayTitles,
                   currentBlurayDevice, isPlayingContent, buffer, socks,
                   timers, spawned, hist>>

\* Node may or may not deliver 'exit' after 'error'
FailedExit(p) ==
    /\ p \in 1..Len(procs) /\ procs[p].st = "failed"
    /\ ExitHandler(p)

\* the pipe of an open socket is closed by the end of its peer
PeerClose(s) ==
    /\ s \in DOMAIN socks /\ socks[s].st = "open"
    /\ procs[socks[s].peer].st # "running"
    /\ socks' = [socks EXCEPT ![s].st = "destroyed"]
    /\ out' = << >>
    /\ call' = NoCall
    /\ UNCHANGED <<mainWindow, mpvProcess, ipcClient, blurayTitles,
                   currentBlurayDevice, isPlayingContent, buffer, procs,
                   timers, spawned, hist>>

\* mpv writes one line to the connection of socket s
MpvEmit(s, line) ==
    /\ s \in DOMAIN socks /\ socks[s].st = "open"
    /\ procs[socks[s].peer].st = "running"
    /\ socks' = [socks EXCEPT ![s].wire = @ \o line]
    /\ hist' = [hist EXCEPT !.lines = @ + 1]
    /\ out' = << >>
    /\ call' = NoCall
    /\ UNCHANGED <<mainWindow, mpvProcess, ipcClient, blurayTitles,
                   currentBlurayDevice, isPlayingContent, buffer, procs, timers,
                   spawned>>

\* one read of n bytes arrives on socket s: every 'data' listener runs
SockData(s, n) ==
    /\ s \in DOMAIN socks /\ socks[s].st = "open"
    /\ socks[s].handlers > 0
    /\ n \in 1..Len(socks[s].wire)
    /\ LET chunk == SubSeq(socks[s].wire, 1, n)
           res == RunHandlers(socks[s].handlers, buffer, chunk)
       IN  /\ buffer' = res.buffer
           /\ out' = res.events
           /\ socks' = [socks EXCEPT ![s].wire = SubSeq(@, n + 1, Len(@))]
           /\ hist' = [hist EXCEPT !.fed = @ \o chunk,
                                   !.disp = @ \o res.events]
    /\ call' = NoCall
    /\ UNCHANGED <<mainWindow, mpvProcess, ipcClient, blurayTitles,
                   currentBlurayDevice, isPlayingContent, procs, timers, spawned>>

Streams == {"stdout", "stderr"}

PipeOf(p, stream) ==
    IF stream = "stdout" THEN procs[p].stdoutPipe ELSE procs[p].stderrPipe

BufferOf(p, stream) ==
    IF stream = "stdout" THEN procs[p].stdoutBuffer ELSE procs[p].stderrBuffer

\* a listener that keeps only the last read
AccumulateNone(buf, chunk) == Utf8Decode(chunk)

\* stdoutBuffer += data.toString(), main.js:345 and 351
Accumulate(buf, chunk) == buf \o Utf8Decode(chunk)

\* process p prints text on one of its output streams
MpvPrint(p, stream, text) ==
    /\ p \in 1..Len(procs) /\ procs[p].st = "running"
    /\ procs' = IF stream = "stdout"
                  THEN [procs EXCEPT ![p].stdoutPipe = @ \o text]
                  ELSE [procs EXCEPT ![p].stderrPipe = @ \o text]
    /\ out' = << >>
    /\ call' = NoCall
    /\ UNCHANGED <<mainWindow, mpvProcess, ipcClient, blurayTitles,
                   currentBlurayDevice, isPlayingContent, buffer, socks,
                   timers, spawned, hist>>

\* one read of n characters of a stream of process p arrives: its 'data'
\* listener, main.js:344-347 (stdout) or 350-353 (stderr)
ProcData(p, stream, n) ==
    /\ p \in 1..Len(procs) /\ procs[p].st \in {"running", "killed", "exited"}
    /\ LET pipe == PipeOf(p, stream)
           text == Accumulate(BufferOf(p, stream), SubSeq(pipe, 1, n))
           rest == SubSeq(pipe, n + 1, Len(pipe))
           res == ParseBlurayTitles(blurayTitles, text)
           ms == Matches(text, 1)
       IN  /\ n \in 1..Len(pipe)
           /\ procs' = IF stream = "stdout"
                         THEN [procs EXCEPT ![p].stdoutBuffer = text,
                                            ![p].stdoutPipe = rest]
                         ELSE [procs EXCEPT ![p].stderrBuffer = text,
                                            ![p].stderrPipe = rest]
           /\ blurayTitles' = res.titles
           /\ out' = SendIfWindow(res.out)
           /\ hist' = [hist EXCEPT
                         !.seen = @ \cup {ms[k].edition : k \in 1..Len(ms)},
                         !.pubs = IF SendIfWindow(res.out) = << >> THEN @
                                  ELSE Append(@, res.out[1][2])]
    /\ call' = NoCall
    /\ UNCHANGED <<mainWindow, mpvProcess, ipcClient, currentBlurayDevice,
                   isPlayingContent, buffer, socks, timers, spawned>>

(***************************************************************************)
(* Spec: the supervisor under every interleaving of requests, timers and   *)
(* callbacks, with a bounded number of requests and connection attempts.   *)
(***************************************************************************)
PlayPaths == {MkvSmall, BdIso}
Editions == {1}
SpecLines == {LineFileLoaded}
\* lines mpv writes in one run of Spec
MaxLines == 1

DoPlay == \E path \in PlayPaths : Len(procs) < MaxRequests /\ Play(path)

DoSwitchTitle ==
    \E e \in Editions :
        /\ (~SwitchRejected(currentBlurayDevice)) => Len(procs) < MaxRequests
        /\ SwitchTitle(e)

DoSwitchResume == \E r \in 1..Len(procs) : SwitchResume(r)

DoStop == Stop

DoConnectIpc ==
    \E t \in timers :
        /\ (~GiveUp(t.retries)) => Cardinality(DOMAIN socks) < MaxAttempts
        /\ ConnectIpc(t)

DoSockConnect == \E s \in DOMAIN socks : \E p \in 1..Len(procs) : SockConnect(s, p)

DoSockError == \E s \in DOMAIN socks : SockError(s)

DoProcExit == \E p \in 1..Len(procs) : ProcExit(p)

DoKilledExit == \E p \in 1..Len(procs) : KilledExit(p)

DoPeerClose == \E s \in DOMAIN socks : PeerClose(s)

DoMpvEmit ==
    \E s \in DOMAIN socks : \E line \in SpecLines :
        hist.lines < MaxLines /\ MpvEmit(s, line)

DoSockData == \E s \in DOMAIN socks : SockData(s, Len(socks[s].wire))

Next ==
    \/ DoPlay
    \/ DoSwitchTitle
    \/ DoSwitchResume
    \/ DoStop
    \/ DoConnectIpc
    \/ DoSockConnect
    \/ DoSockError
    \/ DoProcExit
    \/ DoKilledExit
    \/ DoPeerClose
    \/ DoMpvEmit
    \/ DoSockData

Spec == Init /\ [][Next]_vars

(***************************************************************************)
(* SpecRetry: one play request, and its connect chain run to its end.      *)
(***************************************************************************)
RetryPlay == Len(procs) < 1 /\ Play(MkvSmall)

RetryConnectIpc == \E t \in timers : ConnectIpc(t)

NextRetry ==
    \/ RetryPlay
    \/ DoStop
    \/ RetryConnectIpc
    \/ DoSockConnect
    \/ DoSockError
    \/ DoProcExit
    \/ DoKilledExit
    \/ DoMpvEmit
    \/ DoSockData

SpecRetry == Init /\ [][NextRetry]_vars

(***************************************************************************)
(* SpecDecode: one session whose channel connects at once; mpv writes any  *)
(* of WireLines and the pipe delivers the bytes in reads of any size.      *)
(***************************************************************************)
\* lines mpv writes in one run of SpecDecode
MaxWireLines == 2

DecodeEmit ==
    \E s \in DOMAIN socks : \E line \in WireLines :
        hist.lines < MaxWireLines /\ MpvEmit(s, line)

DecodeRead ==
    \E s \in DOMAIN socks : \E n \in 1..Len(socks[s].wire) : SockData(s, n)

NextDecode ==
    \/ RetryPlay
    \/ RetryConnectIpc
    \/ DoSockConnect
    \/ DecodeEmit
    \/ DecodeRead

SpecDecode == Init /\ [][NextDecode]_vars

(***************************************************************************)
(* SpecTitles: one disc session; mpv prints disc-title announcements and   *)
(* other lines on both output streams, delivered in reads of any size.     *)
(***************************************************************************)
\* lines mpv prints in one run of SpecTitles
MaxPrinted == 2

TitlesPlay == Len(procs) < 1 /\ Play(BdIso)

Printed(p) ==
    LET nl(text) == Cardinality({i \in 1..Len(text) : text[i] = NL})
    IN  nl(procs[p].stdoutBuffer) + nl(procs[p].stdoutPipe)
          + nl(procs[p].stderrBuffer) + nl(procs[p].stderrPipe)

TitlesPrint ==
    \E p \in 1..Len(procs) : \E stream \in Streams : \E text \in DiagLines :
        Printed(p) < MaxPrinted /\ MpvPrint(p, stream, text)

TitlesRead ==
    \E p \in 1..Len(procs) : \E stream \in Streams :
        \E n \in 1..Len(PipeOf(p, stream)) : ProcData(p, stream, n)

NextTitles ==
    \/ TitlesPlay
    \/ TitlesPrint
    \/ TitlesRead
    \/ DoStop

SpecTitles == Init /\ [][NextTitles]_vars

(***************************************************************************)
(* SpecArgs: play requests for every kind of source, stop, and the exits.  *)
(***************************************************************************)
\* play requests in one run of SpecArgs
MaxArgRequests == 2

ArgsPlay == \E path \in Files : Len(procs) < MaxArgRequests /\ Play(path)

NextArgs ==
    \/ ArgsPlay
    \/ DoStop
    \/ DoProcExit
    \/ DoKilledExit

SpecArgs == Init /\ [][NextArgs]_vars

(***************************************************************************)
(* SpecError: one play request whose spawn may fail, its connect chain,    *)
(* and stop.                                                               *)
(***************************************************************************)
DoSpawnError == \E p \in 1..Len(procs) : SpawnError(p)

DoFailedExit == \E p \in 1..Len(procs) : FailedExit(p)

NextError ==
    \/ RetryPlay
    \/ DoSpawnError
    \/ DoFailedExit
    \/ RetryConnectIpc
    \/ DoSockError
    \/ DoStop

SpecError == Init /\ [][NextError]_vars

(***************************************************************************)
(* SpecCmd: one session, its channel connecting, refused, closed or        *)
(* stopped, and mpv-cmd requests at any moment.                            *)
(***************************************************************************)
\* mpv-cmd requests in one run of SpecCmd
MaxCmds == 2

CmdPause == <<Str(<<"cycle">>), Str(<<"pause">>)>>
CmdSeekBack == <<Str(<<"seek">>), Num(-10), Str(<<"relative">>)>>
CmdShowText == <<Str(<<"show-text">>), Str(<<"a", "\"", "\\", "b">>)>>
CmdNone == << >>

Commands == {CmdPause, CmdSeekBack, CmdShowText, CmdNone}

CmdSend == \E cmd \in Commands : Len(hist.cmds) < MaxCmds /\ MpvCmd(cmd)

NextCmd ==
    \/ RetryPlay
    \/ DoConnectIpc
    \/ DoSockConnect
    \/ DoSockError
    \/ DoStop
    \/ DoProcExit
    \/ CmdSend

SpecCmd == Init /\ [][NextCmd]_vars

(***************************************************************************)
(* SpecWindow: play and stop requests, the exits and the channel of the    *)
(* sessions, and requests to close the window.                             *)
(***************************************************************************)
\* play requests in one run of SpecWindow
MaxWindowRequests == 2

WindowPlay == Len(procs) < MaxWindowRequests /\ Play(MkvSmall)

NextWindow ==
    \/ WindowPlay
    \/ DoStop
    \/ DoConnectIpc
    \/ DoSockConnect
    \/ DoProcExit
    \/ DoKilledExit
    \/ WinClose
    \/ WinForceClose

SpecWindow == Init /\ [][NextWindow]_vars

(***************************************************************************)
(* SpecExhaust: one play request whose connect chain runs to its end,      *)
(* with mpv-cmd requests at any moment and no other request.               *)
(***************************************************************************)
\* mpv-cmd requests in one run of SpecExhaust
MaxExhaustCmds == 2

ExhaustCmd == Len(hist.cmds) < MaxExhaustCmds /\ MpvCmd(CmdPause)

NextExhaust ==
    \/ RetryPlay
    \/ RetryConnectIpc
    \/ DoSockError
    \/ DoProcExit
    \/ ExhaustCmd

SpecExhaust == Init /\ [][NextExhaust]_vars

(***************************************************************************)
(* SpecClear: a disc session whose titles are announced, then further play *)
(* requests for any kind of source, title switches and stop.               *)
(***************************************************************************)
\* play requests in one run of SpecClear
MaxClearRequests == 2
\* announcements a process prints in one run of SpecClear
MaxClearPrinted == 1

ClearPlay == \E path \in Files : Len(procs) < MaxClearRequests /\ Play(path)

ClearPrint ==
    \E p \in 1..Len(procs) : \E text \in {AnnounceLong, AnnounceShort} :
        Printed(p) < MaxClearPrinted /\ MpvPrint(p, "stdout", text)

ClearRead ==
    \E p \in 1..Len(procs) : ProcData(p, "stdout", Len(procs[p].stdoutPipe))

NextClear ==
    \/ ClearPlay
    \/ ClearPrint
    \/ ClearRead
    \/ DoSwitchTitle
    \/ DoSwitchResume
    \/ DoStop

SpecClear == Init /\ [][NextClear]_vars

(***************************************************************************)
(* SpecSplit: one disc session whose process prints announcements and a    *)
(* line with a two-byte character on stdout, delivered in reads of any     *)
(* size.                                                                   *)
(***************************************************************************)
\* lines mpv prints in one run of SpecSplit
MaxSplitPrinted == 2

PlayingLine == <<"Playing: ", "C3", "A9", NL>>

StreamLines == {AnnounceLong, AnnounceShort, AnnounceClip, PlayingLine}

SplitPrint ==
    \E p \in 1..Len(procs) : \E text \in StreamLines :
        Printed(p) < MaxSplitPrinted /\ MpvPrint(p, "stdout", text)

SplitRead ==
    \E p \in 1..Len(procs) :
        \E n \in 1..Len(procs[p].stdoutPipe) : ProcData(p, "stdout", n)

NextSplit ==
    \/ TitlesPlay
    \/ SplitPrint
    \/ SplitRead

SpecSplit == Init /\ [][NextSplit]_vars

(***************************************************************************)
(* SpecSwitch: play requests for disc images, switch-title requests for    *)
(* the editions 0 and 1, their continuations, stop and the exits.          *)
(***************************************************************************)
\* play and accepted switch-title requests in one run of SpecSwitch
MaxSwitchRequests == 3

SwitchEditions == {0, 1}

SwitchPlay ==
    \E path \in {BdIso, IsoMissing, DvdIso} :
        Len(procs) < MaxSwitchRequests /\ Play(path)

SwitchRequest ==
    \E e \in SwitchEditions :
        /\ (~SwitchRejected(currentBlurayDevice)) => Len(procs) < MaxSwitchRequests
        /\ SwitchTitle(e)

NextSwitch ==
    \/ SwitchPlay
    \/ SwitchRequest
    \/ DoSwitchResume
    \/ DoStop
    \/ DoProcExit
    \/ DoKilledExit

SpecSwitch == Init /\ [][NextSwitch]_vars

(***************************************************************************)
(* Observations used by the properties.                                    *)
(***************************************************************************)
Range(f) == {f[i] : i \in DOMAIN f}

ProcIds == 1..Len(procs)
LiveProcs == {p \in ProcIds : procs[p].st = "running"}
OpenSocks == {s \in DOMAIN socks : socks[s].st = "open"}
SocksOf(c) == {s \in DOMAIN socks : s[1] = c}

\* nothing is pending: no timer, no suspended request, no connection in
\* progress, no 'exit' or close still to be delivered
Quiescent ==
    /\ timers = {}
    /\ \A p \in ProcIds : procs[p].st \notin {"settle", "killed"}
    /\ \A s \in DOMAIN socks : socks[s].st # "connecting"
    /\ \A s \in OpenSocks : procs[socks[s].peer].st = "running"

(***************************************************************************)
(* C1  Two play requests back-to-back, the second before the first's       *)
(* delayed connect has fired: once everything pending has run there is     *)
(* exactly one live process and exactly one open channel, the first        *)
(* process has been killed, every socket of the first request is           *)
(* destroyed and no open socket is unreferenced by the channel handle.     *)
(* (Stated for the runs in which the second process stays alive.)          *)
(***************************************************************************)
C1_BackToBackPlaysLeaveOneSession ==
    (hist.b2b /\ Len(procs) = 2 /\ procs[2].st = "running" /\ Quiescent)
      => /\ LiveProcs = {2}
         /\ procs[1].st = "exited"
         /\ Cardinality(OpenSocks) = 1
         /\ \A s \in SocksOf(1) : Destroyed(socks[s])
         /\ \A s \in OpenSocks : s = ipcClient

(***************************************************************************)
(* C2  A session whose 41 connection attempts (retries 0..40) are all      *)
(* refused never sends 'mpv-ready', and its retry loop stops: no attempt   *)
(* beyond retry 40 is made and no timer is left or scheduled afterwards.   *)
(* 'mpv-ready' is sent only in a run in which some attempt was accepted.   *)
(***************************************************************************)
AllRefused(c) ==
    \A k \in 0..RetryLimit :
        <<c, k>> \in DOMAIN socks /\ socks[<<c, k>>].st = "refused"

C2_ExhaustedRetriesNoReadyNoLoop ==
    /\ <<"mpv-ready">> \in Range(out) => \E s \in DOMAIN socks : socks[s].peer # Null
    /\ \A c \in ProcIds :
         /\ \A s \in SocksOf(c) : s[2] <= RetryLimit
         /\ \A t \in timers : t.chain = c => t.retries <= RetryLimit + 1
         /\ AllRefused(c) =>
              /\ Cardinality(SocksOf(c)) = RetryLimit + 1
              /\ \A s \in SocksOf(c) : socks[s].peer = Null /\ socks[s].handlers = 0
              /\ \A t \in timers : t.chain = c => t.retries = RetryLimit + 1

\* all 41 attempts refused and the last timer has fired: nothing is pending
C2_Witness ==
    AllRefused(1) /\ timers = {} /\ Cardinality(SocksOf(1)) = 41

(***************************************************************************)
(* C3  A switch-title request made while no disc device is on record       *)
(* returns false, sends nothing upstream and leaves the process handle,    *)
(* the channel handle, the processes, the sockets, the timers, the title   *)
(* list and the disc-device memory as they were.                           *)
(***************************************************************************)
C3_SwitchWithoutDeviceRejected ==
    [][(call'.op = "switch-title" /\ currentBlurayDevice = NoPath)
         => /\ call'.ret = "false"
            /\ out' = << >>
            /\ UNCHANGED <<mpvProcess, ipcClient, procs, socks, timers,
                           spawned, blurayTitles, currentBlurayDevice,
                           isPlayingContent>>]_vars

\* a rejected switch-title after a plain file was played and is still running
C3_Witness ==
    /\ call = [op |-> "switch-title", ret |-> "false"]
    /\ mpvProcess # Null
    /\ currentBlurayDevice = NoPath

(***************************************************************************)
(* C9  Whenever the player process exits without having been stopped or    *)
(* replaced (it was running, not killed), 'mpv-closed' is sent upstream.   *)
(***************************************************************************)
C9_UnexpectedExitEmitsClosed ==
    [][(\E p \in ProcIds : procs[p].st = "running" /\ procs'[p].st = "exited")
         => <<"mpv-closed">> \in Range(out')]_vars

(***************************************************************************)
(* C10  When the current player process exits, the process handle and the  *)
(* channel handle are cleared and the channel is destroyed, and no process *)
(* is spawned afterwards until a new play or switch-title request is made. *)
(***************************************************************************)
Spawned(ps) == {p \in 1..Len(ps) : ps[p].st \in {"running", "killed", "exited"}}

CurrentExits ==
    /\ mpvProcess # Null
    /\ procs[mpvProcess].st = "running"
    /\ procs'[mpvProcess].st = "exited"

C10_ExitClearsHandlesNoRestart ==
    [][/\ CurrentExits =>
            /\ mpvProcess' = Null
            /\ ipcClient' = NoSock
            /\ ipcClient # NoSock => Destroyed(socks'[ipcClient])
       /\ (hist.idle /\ hist'.idle) => Spawned(procs') = Spawned(procs)]_vars

\* the half of C10 about the exit handler itself
C10_ExitClearsHandles ==
    [][CurrentExits =>
            /\ mpvProcess' = Null
            /\ ipcClient' = NoSock
            /\ ipcClient # NoSock => Destroyed(socks'[ipcClient])]_vars

(***************************************************************************)
(* C4  For every inbound byte stream and every way of splitting it into    *)
(* reads, the upstream messages dispatched so far, and the remainder kept, *)
(* are those of one read of the whole stream: hist.fed is what was read    *)
(* since setupIpc, hist.disp what the listener dispatched.                 *)
(***************************************************************************)
C4_FragmentationInvariant ==
    (\A s \in DOMAIN socks : socks[s].handlers <= 1)
      => /\ hist.disp = OnData(<< >>, hist.fed).events
         /\ buffer = OnData(<< >>, hist.fed).buffer

\* the same for streams of ASCII bytes only (no multi-byte character)
AsciiOnly(bytes) == \A i \in 1..Len(bytes) : bytes[i] \notin {"C3", "A9"}

C4_AsciiFragmentationInvariant ==
    ((\A s \in DOMAIN socks : socks[s].handlers <= 1) /\ AsciiOnly(hist.fed))
      => /\ hist.disp = OnData(<< >>, hist.fed).events
         /\ buffer = OnData(<< >>, hist.fed).buffer

(***************************************************************************)
(* Title lists: the list at rest and every list sent as 'bluray-titles'.   *)
(***************************************************************************)
PublishedLists == {m[2] : m \in {e \in Range(out) : e[1] = "bluray-titles"}}

TitleEditions(list) == {list[k].edition : k \in 1..Len(list)}

OnePerEdition(list, seen) ==
    /\ Cardinality(TitleEditions(list)) = Len(list)
    /\ TitleEditions(list) = seen

(***************************************************************************)
(* C5  After any sequence of scans of the stdout and stderr buffers (each  *)
(* scan over the whole cumulative text, the same edition possibly on both  *)
(* streams) the title list, and every list published upstream, has exactly *)
(* one entry per distinct edition id matched since the list was emptied.   *)
(***************************************************************************)
C5_OneEntryPerEdition ==
    /\ OnePerEdition(blurayTitles, hist.seen)
    /\ \A list \in PublishedLists : OnePerEdition(list, hist.seen)

\* the same edition has been scanned on both streams: one entry
C5_Witness ==
    \E p \in ProcIds :
        LET a == Matches(procs[p].stdoutBuffer, 1)
            b == Matches(procs[p].stderrBuffer, 1)
        IN  /\ Len(a) = 1 /\ Len(b) = 1
            /\ b[1].edition = a[1].edition
            /\ Len(blurayTitles) = 1

(***************************************************************************)
(* C6 as stated: in every published list displayIndex is 1..N in order,    *)
(* the derived durations are strictly descending along the list, and       *)
(* exactly one entry is isMain, one whose derived duration is the largest. *)
(***************************************************************************)
IndexedInOrder(list) == \A i \in 1..Len(list) : list[i].displayIndex = i

OneMainOfLargest(list) ==
    /\ Cardinality({i \in 1..Len(list) : list[i].isMain}) = 1
    /\ \A i, j \in 1..Len(list) :
          list[i].isMain => toSec(list[i].duration) >= toSec(list[j].duration)

C6_StrictlyDescending ==
    \A list \in PublishedLists :
        /\ IndexedInOrder(list)
        /\ \A i, j \in 1..Len(list) :
              i < j => toSec(list[i].duration) > toSec(list[j].duration)
        /\ OneMainOfLargest(list)

(***************************************************************************)
(* C6  In every published list displayIndex is 1..N in order, the derived  *)
(* durations never increase along the list (equal durations are adjacent), *)
(* and exactly one entry is isMain: the first, whose derived duration no   *)
(* other entry exceeds.                                                    *)
(***************************************************************************)
C6_NonIncreasingOneMain ==
    \A list \in PublishedLists :
        /\ IndexedInOrder(list)
        /\ \A i, j \in 1..Len(list) :
              i < j => toSec(list[i].duration) >= toSec(list[j].duration)
        /\ OneMainOfLargest(list)
        /\ list[1].isMain

\* a published list of two titles of equal duration
C6_Witness ==
    \E list \in PublishedLists :
        /\ Len(list) = 2
        /\ toSec(list[1].duration) = toSec(list[2].duration)

(***************************************************************************)
(* C7  The conversion of a duration text splits it on ':' and folds left   *)
(* with acc * 60 + unit: "1:02:03" gives 3723 and "0:49" gives 49.  The    *)
(* durationSeconds of every title in the list and in every published list  *)
(* is that conversion of the title's raw duration, and is the value the    *)
(* sort compares.  (The conversion is restated here as the positional sum  *)
(* of the units, the last unit counting seconds.)                          *)
(***************************************************************************)
RECURSIVE PositionalSeconds(_)
PositionalSeconds(units) ==
    IF units = << >> THEN 0
    ELSE PositionalSeconds(SubSeq(units, 1, Len(units) - 1)) * 60
           + DecimalValue(units[Len(units)], 0)

SecondsOf(d) == PositionalSeconds(SplitColon(d))

HourMinSec == <<"1", ":", "0", "2", ":", "0", "3">>
MinSec == <<"0", ":", "4", "9">>

ConvertedAlike(list) ==
    \A i \in 1..Len(list) :
        /\ list[i].durationSeconds = SecondsOf(list[i].duration)
        /\ toSec(list[i].duration) = list[i].durationSeconds

C7_DurationSeconds ==
    /\ toSec(HourMinSec) = 3723 /\ durationSecondsOf(HourMinSec) = 3723
    /\ toSec(MinSec) = 49 /\ durationSecondsOf(MinSec) = 49
    /\ ConvertedAlike(blurayTitles)
    /\ \A list \in PublishedLists : ConvertedAlike(list)

\* a published list holding both example durations with their seconds
C7_Witness ==
    \E list \in PublishedLists :
        /\ \E i \in 1..Len(list) :
              list[i].duration = HourMinSec /\ list[i].durationSeconds = 3723
        /\ \E i \in 1..Len(list) :
              list[i].duration = MinSec /\ list[i].durationSeconds = 49

(***************************************************************************)
(* C8  For a play request whose source is a 12 GB non-ISO path that has a  *)
(* bluray-folder marker (a BDMV directory in it), the arguments passed to  *)
(* spawn include the 500M / 60 s cache tier and a bluray-device argument,  *)
(* and no dvd-device argument.                                             *)
(***************************************************************************)
HasFolderMarker(path) == "BDMV" \in Range(path)

TwelveGB == 12 * 1024

MarkedFolderSpawned ==
    /\ spawned.proc # Null
    /\ HasFolderMarker(spawned.source)
    /\ ~isIsoPath(spawned.source)
    /\ StatSizeMiB(spawned.source) = TwelveGB

HasArg(args, name) == \E i \in 1..Len(args) : args[i][1] = name

C8_MarkedFolderArgs ==
    MarkedFolderSpawned =>
        /\ HasArg(spawned.args, "--demuxer-max-bytes=500M")
        /\ HasArg(spawned.args, "--demuxer-readahead-secs=60")
        /\ HasArg(spawned.args, "--bluray-device=")
        /\ ~HasArg(spawned.args, "--dvd-device=")

\* the part of C8 about the cache tier and the absence of a dvd-device
C8_MarkedFolderCacheTier ==
    MarkedFolderSpawned =>
        /\ HasArg(spawned.args, "--demuxer-max-bytes=500M")
        /\ HasArg(spawned.args, "--demuxer-readahead-secs=60")
        /\ ~HasArg(spawned.args, "--dvd-device=")

(***************************************************************************)
(* C11  When the spawn of the player fails ('error' event), 'mpv-error'    *)
(* is sent upstream and the supervisor is idle: the process handle and the *)
(* channel handle are null, and no socket is made afterwards by the        *)
(* connect chain of the failed spawn.                                      *)
(***************************************************************************)
SpawnFails(p) == procs[p].st = "running" /\ procs'[p].st = "failed"

C11_SpawnErrorLeavesIdle ==
    [][\A p \in ProcIds :
          /\ SpawnFails(p) =>
                /\ \E i \in 1..Len(out') : out'[i][1] = "mpv-error"
                /\ mpvProcess' = Null
                /\ ipcClient' = NoSock
          /\ procs[p].st = "failed" =>
                {s \in DOMAIN socks' : s[1] = p} = SocksOf(p)]_vars

\* the part of C11 about the report upstream
C11_SpawnErrorReported ==
    [][\A p \in ProcIds :
          SpawnFails(p) => \E i \in 1..Len(out') : out'[i][1] = "mpv-error"]_vars

(***************************************************************************)
(* C12  A stop request, from any state, kills the player process if one    *)
(* exists and destroys the channel if one exists (afterwards no spawned    *)
(* process is alive and unkilled, no socket is open), leaves the process   *)
(* handle and the channel handle null, empties the title list, clears the  *)
(* disc-device memory and sends exactly one 'mpv-closed'.                  *)
(***************************************************************************)
StopLeavesHandlesClear ==
    /\ mpvProcess # Null => procs'[mpvProcess].st # "running"
    /\ ipcClient # NoSock => Destroyed(socks'[ipcClient])
    /\ mpvProcess' = Null
    /\ ipcClient' = NoSock
    /\ blurayTitles' = << >>
    /\ currentBlurayDevice' = NoPath
    /\ out' = << <<"mpv-closed">> >>

C12_StopKillsAndClears ==
    [][call'.op = "stop" =>
          /\ StopLeavesHandlesClear
          /\ \A p \in ProcIds : procs'[p].st # "running"
          /\ \A s \in DOMAIN socks : socks'[s].st # "open"]_vars

\* the part of C12 about the process and the channel the handles name
C12_StopClearsNamed ==
    [][call'.op = "stop" => StopLeavesHandlesClear]_vars

(***************************************************************************)
(* C13  Every 'mpv-ready' is sent only when the session's channel (the     *)
(* socket the channel handle names) has connected: in the step in which a  *)
(* connection succeeds, or in a later read of a file-loaded or             *)
(* playback-restart line from a connected socket; never while the channel  *)
(* of the session is absent or still connecting.                           *)
(***************************************************************************)
ReadySent(msgs) == <<"mpv-ready">> \in Range(msgs)

ChannelConnected(client, ss) == client # NoSock /\ ss[client].st = "open"

C13_ReadyOnlyWhenConnected ==
    [][ReadySent(out') =>
          /\ ChannelConnected(ipcClient', socks')
          /\ \/ \E s \in DOMAIN socks :
                   socks[s].st = "connecting" /\ socks'[s].st = "open"
             \/ \E s \in DOMAIN socks :
                   /\ socks[s].st = "open"
                   /\ Len(socks'[s].wire) < Len(socks[s].wire)]_vars

(***************************************************************************)
(* C14  sendCmd returns false, writes nothing and changes no state         *)
(* whenever the channel handle is null or the channel is destroyed; it     *)
(* returns true only when it has written a line to the channel.            *)
(***************************************************************************)
ChannelUnusable == ipcClient = NoSock \/ Destroyed(socks[ipcClient])

C14_SendCmdNoOpWhenUnusable ==
    [][call'.op = "mpv-cmd" =>
          /\ ChannelUnusable =>
                /\ call'.ret = "false"
                /\ UNCHANGED <<mainWindow, mpvProcess, ipcClient, blurayTitles,
                               currentBlurayDevice, isPlayingContent, buffer,
                               procs, socks, timers, spawned>>
          /\ call'.ret = "true" =>
                /\ ipcClient # NoSock
                /\ Len(socks'[ipcClient].sent) = Len(socks[ipcClient].sent) + 1]_vars

\* a command refused because the channel the handle names is destroyed
C14_Witness ==
    /\ call = [op |-> "mpv-cmd", ret |-> "false"]
    /\ ipcClient # NoSock
    /\ Destroyed(socks[ipcClient])

(***************************************************************************)
(* Reading a written line back: the JSON text of an object with the one    *)
(* member "command", an array of strings and integers, and a newline.      *)
(***************************************************************************)
BadParse == [ok |-> FALSE, value |-> << >>, next |-> 0]

\* the string whose first character is at toks[i], up to its closing quote
RECURSIVE ReadString(_, _, _)
ReadString(toks, i, acc) ==
    IF i > Len(toks) THEN BadParse
    ELSE IF toks[i] = "\"" THEN [ok |-> TRUE, value |-> Str(acc), next |-> i + 1]
    ELSE IF toks[i] = "\\"
      THEN IF i + 1 > Len(toks) THEN BadParse
           ELSE ReadString(toks, i + 2, Append(acc, toks[i + 1]))
    ELSE ReadString(toks, i + 1, Append(acc, toks[i]))

ReadNumber(toks, i) ==
    LET neg == toks[i] = "-"
        from == IF neg THEN i + 1 ELSE i
        ds == IF from <= Len(toks)
                THEN RunOf(SubSeq(toks, from, Len(toks)), Digits) ELSE << >>
    IN  IF ds = << >> THEN BadParse
        ELSE [ok |-> TRUE,
              value |-> Num(IF neg THEN 0 - DecimalValue(ds, 0) ELSE DecimalValue(ds, 0)),
              next |-> from + Len(ds)]

ReadValue(toks, i) ==
    IF i > Len(toks) THEN BadParse
    ELSE IF toks[i] = "\"" THEN ReadString(toks, i + 1, << >>)
    ELSE ReadNumber(toks, i)

\* the elements from toks[i] on, up to the closing bracket
RECURSIVE ReadElements(_, _, _)
ReadElements(toks, i, acc) ==
    LET v == ReadValue(toks, i)
    IN  IF ~v.ok \/ v.next > Len(toks) THEN BadParse
        ELSE IF toks[v.next] = "]"
          THEN [ok |-> TRUE, value |-> Append(acc, v.value), next |-> v.next + 1]
        ELSE IF toks[v.next] = ","
          THEN ReadElements(toks, v.next + 1, Append(acc, v.value))
        ELSE BadParse

CommandOpening == <<"{", "\"", "c", "o", "m", "m", "a", "n", "d", "\"", ":", "[">>

\* line is {"command":<array>} and one newline: the array, or BadParse
ReadCommandLine(line) ==
    LET n == Len(CommandOpening)
        arr == IF Len(line) > n /\ line[n + 1] = "]"
                 THEN [ok |-> TRUE, value |-> << >>, next |-> n + 2]
                 ELSE ReadElements(line, n + 1, << >>)
    IN  IF /\ Len(line) > n
           /\ SubSeq(line, 1, n) = CommandOpening
           /\ arr.ok
           /\ Len(line) = arr.next + 1
           /\ line[arr.next] = "}"
           /\ line[arr.next + 1] = NL
          THEN arr
          ELSE BadParse

(***************************************************************************)
(* C15  For every array passed to sendCmd while the channel is usable,     *)
(* exactly one line is written to the channel: the JSON object             *)
(* {"command": <the array, unmodified, in the same order>} and a single    *)
(* newline, appended after everything written before (call order).         *)
(***************************************************************************)
LastCmd(h) == h.cmds[Len(h.cmds)]

C15_OneLinePerCommand ==
    [][(call'.op = "mpv-cmd" /\ ~ChannelUnusable) =>
          /\ call'.ret = "true"
          /\ \E line \in Range(socks'[ipcClient].sent) :
                /\ socks'[ipcClient].sent = Append(socks[ipcClient].sent, line)
                /\ ReadCommandLine(line).ok
                /\ ReadCommandLine(line).value = LastCmd(hist')
          /\ \A s \in DOMAIN socks : s # ipcClient => socks'[s] = socks[s]]_vars

\* two different commands written after the subscriptions, in call order
C15_Witness ==
    /\ call = [op |-> "mpv-cmd", ret |-> "true"]
    /\ Len(hist.cmds) = 2
    /\ hist.cmds[1] = CmdShowText /\ hist.cmds[2] = CmdSeekBack
    /\ ipcClient # NoSock
    /\ LET sent == socks[ipcClient].sent
       IN  /\ Len(sent) = Len(ObservedProps) + 2
           /\ ReadCommandLine(sent[Len(sent) - 1]).value = CmdShowText
           /\ ReadCommandLine(sent[Len(sent)]).value = CmdSeekBack

(***************************************************************************)
(* Valid JSON among the lines of the wire: an object, "{" ... "}", whose   *)
(* members are complete (a "data": key is followed by its value).          *)
(***************************************************************************)
RECURSIVE MembersComplete(_)
MembersComplete(chars) ==
    IF chars = << >> THEN TRUE
    ELSE IF chars[1] \in {"{", "}", NL} \cup DataValues THEN FALSE
    ELSE IF chars[1] = "data:"
      THEN /\ Len(chars) >= 2 /\ chars[2] \in DataValues
           /\ MembersComplete(SubSeq(chars, Len(RunOf(Tail(chars), DataValues)) + 2,
                                      Len(chars)))
    ELSE MembersComplete(Tail(chars))

ValidJsonLine(line) ==
    /\ Len(line) >= 2 /\ line[1] = "{" /\ line[Len(line)] = "}"
    /\ MembersComplete(SubSeq(line, 2, Len(line) - 1))

\* the segments of text, the last one being the incomplete remainder
CompleteLines(text) == SubSeq(SplitLines(text), 1, Len(SplitLines(text)) - 1)

\* text with every complete line that is not valid JSON taken out
RECURSIVE JoinLines(_)
JoinLines(lines) ==
    IF lines = << >> THEN << >>
    ELSE lines[1] \o <<NL>> \o JoinLines(Tail(lines))

WithoutInvalid(text) ==
    JoinLines(SelectSeq(CompleteLines(text), ValidJsonLine))
        \o KeepRemainder(SplitLines(text))

\* socket s delivers a read in this step: the characters the listener sees
ReadOn(s) ==
    /\ socks[s].st = "open" /\ socks[s].handlers = 1
    /\ Len(socks'[s].wire) < Len(socks[s].wire)

SeenText(s) ==
    buffer \o Utf8Decode(SubSeq(socks[s].wire, 1,
                                 Len(socks[s].wire) - Len(socks'[s].wire)))

(***************************************************************************)
(* C16  A complete inbound line that is not valid JSON is dropped: it      *)
(* gives no upstream message and does not change the remainder kept in     *)
(* the decode buffer; the other complete lines of the same read and of     *)
(* later reads are dispatched as if it had not been there, and the         *)
(* channel stays open.                                                     *)
(***************************************************************************)
C16_InvalidLineDropped ==
    [][\A s \in DOMAIN socks :
          ReadOn(s) =>
            LET text == SeenText(s)
                clean == OnData(WithoutInvalid(text), << >>)
            IN  /\ out' = clean.events
                /\ Len(out') <= Len(SelectSeq(CompleteLines(text), ValidJsonLine))
                /\ buffer' = clean.buffer
                /\ buffer' = KeepRemainder(SplitLines(text))
                /\ socks'[s].st = "open"]_vars

\* an invalid line was read, and the valid line after it was dispatched
C16_Witness ==
    /\ hist.fed = LineBroken \o LineFileLoaded
    /\ hist.disp = << <<"mpv-ready">> >>
    /\ out = << <<"mpv-ready">> >>
    /\ buffer = << >>
    /\ ipcClient # NoSock /\ socks[ipcClient].st = "open"

(***************************************************************************)
(* What a valid line says, read off its members.                           *)
(***************************************************************************)
IsPropertyChange(line) == "event:property-change" \in Range(line)

RequestIds == {"0", "7"}

HasRequestId(line, id) ==
    \/ id = "0" /\ "request_id:0" \in Range(line)
    \/ id = "7" /\ "request_id:7" \in Range(line)

IsReplyWithData(line) ==
    /\ ~IsPropertyChange(line)
    /\ "error:success" \in Range(line)
    /\ "data:" \in Range(line)
    /\ \E id \in RequestIds : HasRequestId(line, id)

DataOf(line) ==
    IF "data:" \in Range(line)
      THEN LET i == CHOOSE k \in 1..Len(line) : line[k] = "data:"
           IN  RunOf(SubSeq(line, i + 1, Len(line)), DataValues)
      ELSE NoData

NameOf(line) == IF "name:time-pos" \in Range(line) THEN "time-pos" ELSE Undefined

PropertyEvents(msgs) == SelectSeq(msgs, LAMBDA m : m[1] = "mpv-prop")

\* every property-change line and every reply line among ids has its event
\* in msgs, and msgs has as many property events as there are such lines
PropertyEventsFor(lines, msgs, ids) ==
    LET changes == SelectSeq(lines, IsPropertyChange)
        replies == SelectSeq(lines, LAMBDA l : IsReplyWithData(l)
                                      /\ \E id \in ids : HasRequestId(l, id))
    IN  /\ \A i \in 1..Len(changes) :
              <<"mpv-prop", "name", NameOf(changes[i]), DataOf(changes[i])>>
                  \in Range(msgs)
        /\ \A i \in 1..Len(replies) : \A id \in ids :
              HasRequestId(replies[i], id) =>
                  <<"mpv-prop", "request_id", id, DataOf(replies[i])>> \in Range(msgs)
        /\ Len(changes) + Len(replies) <= Len(PropertyEvents(msgs))

(***************************************************************************)
(* C17  Every inbound property-change message gives one 'mpv-prop' (name,  *)
(* data), and every successful reply carrying a request id and data gives  *)
(* one 'mpv-prop' whose name is that request id and whose value is the     *)
(* data, for every request id, 0 included.                                 *)
(***************************************************************************)
C17_PropertyEventPerMessage ==
    [][\A s \in DOMAIN socks :
          ReadOn(s) =>
            PropertyEventsFor(SelectSeq(CompleteLines(SeenText(s)), ValidJsonLine),
                              out', RequestIds)]_vars

\* the same for the request ids other than 0
C17_PropertyEventPerNonZeroId ==
    [][\A s \in DOMAIN socks :
          ReadOn(s) =>
            PropertyEventsFor(SelectSeq(CompleteLines(SeenText(s)), ValidJsonLine),
                              out', RequestIds \ {"0"})]_vars

(***************************************************************************)
(* C18  A request to close the window made while content is playing is     *)
(* prevented and 'confirm-exit' is sent instead; the window is closed only *)
(* when nothing is playing or by the force-close command; and once the     *)
(* window is closed the player process has been killed and the channel     *)
(* destroyed (no spawned process is alive and unkilled, no socket open).   *)
(***************************************************************************)
WindowCloses == mainWindow /\ ~mainWindow'

CloseGuarded ==
    /\ (call'.op = "win-close" /\ isPlayingContent) =>
          /\ mainWindow'
          /\ out' = << <<"confirm-exit">> >>
          /\ UNCHANGED <<procs, socks, mpvProcess, ipcClient>>
    /\ WindowCloses =>
          /\ ~isPlayingContent \/ call'.op = "win-force-close"
          /\ mpvProcess # Null => procs'[mpvProcess].st # "running"
          /\ ipcClient # NoSock => Destroyed(socks'[ipcClient])
          /\ mpvProcess' = Null /\ ipcClient' = NoSock

C18_CloseGuardedAndCleansUp ==
    [][/\ CloseGuarded
       /\ WindowCloses =>
             /\ \A p \in ProcIds : procs'[p].st # "running"
             /\ \A s \in DOMAIN socks : socks'[s].st # "open"]_vars

\* the part of C18 about the guard and about what the handles name
C18_CloseGuarded == [][CloseGuarded]_vars

(***************************************************************************)
(* C19  After the connect attempts of a session are exhausted (41          *)
(* refusals, the last timer fired) and while no new play or switch-title   *)
(* request is made: the running process is not killed and none is spawned, *)
(* no further connect attempt or timer is made, and every sendCmd returns  *)
(* false.                                                                  *)
(***************************************************************************)
Exhausted(c) == AllRefused(c) /\ \A t \in timers : t.chain # c

C19_ExhaustedStaysDegraded ==
    [][(Len(procs) = 1 /\ Exhausted(1) /\ Len(procs') = 1) =>
          /\ procs'[1].st # "killed"
          /\ procs[1].st = "running" => procs'[1].st \in {"running", "exited"}
          /\ DOMAIN socks' = DOMAIN socks
          /\ timers' = timers
          /\ call'.op = "mpv-cmd" => call'.ret = "false" /\ socks' = socks]_vars

\* a command refused after the attempts were exhausted, the process running
C19_Witness ==
    /\ Len(procs) = 1 /\ Exhausted(1)
    /\ procs[1].st = "running"
    /\ mpvProcess = 1
    /\ call = [op |-> "mpv-cmd", ret |-> "false"]

(***************************************************************************)
(* C20  In every play or switch-title request the previous channel is      *)
(* destroyed and the previous process is killed before the new process is  *)
(* spawned: in the step that spawns, no earlier process is left alive and  *)
(* unkilled and no earlier socket is left connecting or open.  In a        *)
(* switch-title request 'switching-title' is sent before the settle wait   *)
(* and the spawn happens only after it: the accepting step sends the       *)
(* notice and spawns nothing.                                              *)
(***************************************************************************)
SpawnsIn(r) ==
    /\ r \in 1..Len(procs') /\ procs'[r].st = "running"
    /\ r \in 1..Len(procs) => procs[r].st = "settle"

SwitchAccepted == call'.op = "switch-title" /\ call'.ret = "true"

NoticeBeforeWait ==
    SwitchAccepted =>
        /\ out' = << <<"switching-title">> >>
        /\ Spawned(procs') = Spawned(procs)
        /\ procs'[Len(procs')].st = "settle"

C20_TeardownBeforeSpawn ==
    [][/\ \A r \in 1..Len(procs') :
            SpawnsIn(r) =>
              /\ \A p \in ProcIds : p # r => procs'[p].st # "running"
              /\ \A s \in DOMAIN socks : Destroyed(socks'[s])
       /\ NoticeBeforeWait]_vars

\* the part of C20 about the handler that receives the request: what the
\* handles name at the request is torn down in that step
C20_NamedTornDownAtRequest ==
    [][/\ (Len(procs') = Len(procs) + 1) =>
              /\ mpvProcess # Null => procs'[mpvProcess].st # "running"
              /\ ipcClient # NoSock => Destroyed(socks'[ipcClient])
       /\ NoticeBeforeWait]_vars

(***************************************************************************)
(* C21  In every reachable state, under every interleaving of play,        *)
(* switch-title and stop requests (a play during the settle wait of a      *)
(* switch-title included), at most one spawned process is alive and not    *)
(* killed, and that process is the one the process handle names.           *)
(***************************************************************************)
C21_AtMostOneLiveProcess ==
    /\ Cardinality(LiveProcs) <= 1
    /\ \A p \in LiveProcs : mpvProcess = p

(***************************************************************************)
(* C22  A new play or switch-title request cancels the earlier request     *)
(* that is still connecting: no timer of an earlier request (its delay     *)
(* after the spawn or its retry delay) fires once a later request has      *)
(* been made, and at most one connect-retry chain is active at any time.   *)
(***************************************************************************)
\* the chains with a timer pending or a connection in progress
ActiveChains ==
    {t.chain : t \in timers}
      \cup {s[1] : s \in {c \in DOMAIN socks : socks[c].st = "connecting"}}

C22_NewRequestCancelsEarlierChain ==
    [][/\ \A t \in timers \ timers' : t.chain = Len(procs)
       /\ Cardinality(ActiveChains') <= 1]_vars

(***************************************************************************)
(* C23  On each successful connection exactly 17 observe_property          *)
(* commands are sent, one per name of the property list and in list        *)
(* order, with the ids 1, 2, ..., 17, all written to the channel that has  *)
(* just connected, after what was written to it before and so ahead of     *)
(* any command issued after 'mpv-ready'; nothing is written elsewhere.     *)
(***************************************************************************)
\* the sockets whose connection succeeds in this step
JustConnected ==
    {s \in DOMAIN socks : socks[s].st = "connecting" /\ socks'[s].st = "open"}

\* more is the 17 registrations: line i reads back as
\* ["observe_property", i, name i]
IsSubscription(more) ==
    /\ Len(more) = 17
    /\ Len(ObservedProps) = 17
    /\ \A i \in 1..17 :
          LET cmd == ReadCommandLine(more[i])
          IN  /\ cmd.ok
              /\ Len(cmd.value) = 3
              /\ cmd.value[1] = Str(<<"observe_property">>)
              /\ cmd.value[2] = Num(i)
              /\ cmd.value[3] = Str(ObservedProps[i])

SubscribedOnConnect ==
    \A s \in JustConnected :
        /\ Len(socks'[s].sent) = Len(socks[s].sent) + 17
        /\ SubSeq(socks'[s].sent, 1, Len(socks[s].sent)) = socks[s].sent
        /\ IsSubscription(SubSeq(socks'[s].sent, Len(socks[s].sent) + 1,
                                 Len(socks'[s].sent)))
        /\ \A c \in DOMAIN socks : c # s => socks'[c].sent = socks[c].sent

C23_SubscribedOnEachConnect == [][SubscribedOnConnect]_vars

\* the same for the connections of a session that no other request overlaps
C23_SubscribedOnConnectOfOneSession ==
    [][Len(procs) = 1 => SubscribedOnConnect]_vars

(***************************************************************************)
(* C24  The title list is emptied by every fresh play request (one that    *)
(* is not a title switch), whatever the source mode that is detected; a    *)
(* title-switch request leaves it unchanged, in the step that accepts it   *)
(* and in the step that spawns; titles are never removed one by one: a     *)
(* step either empties the list or keeps every edition it held.            *)
(***************************************************************************)
FreshPlay == Len(procs') = Len(procs) + 1 /\ ~SwitchAccepted

SwitchSpawns ==
    \E r \in ProcIds : procs[r].st = "settle" /\ procs'[r].st = "running"

KeepsEveryEdition ==
    \/ blurayTitles' = << >>
    \/ TitleEditions(blurayTitles) \subseteq TitleEditions(blurayTitles')

C24_TitlesClearedByFreshPlay ==
    [][/\ FreshPlay => blurayTitles' = << >>
       /\ (SwitchAccepted \/ SwitchSpawns) => blurayTitles' = blurayTitles
       /\ KeepsEveryEdition]_vars

\* the same with the clearing stated for the one mode that clears: a fresh
\* play of an image of more than 10GB
C24_TitlesClearedByFreshBlurayPlay ==
    [][/\ (FreshPlay /\ spawned'.source \in {BdIso, BdIsoUpper})
            => blurayTitles' = << >>
       /\ (SwitchAccepted \/ SwitchSpawns) => blurayTitles' = blurayTitles
       /\ KeepsEveryEdition]_vars

(***************************************************************************)
(* C25  Between two explicit clears (a fresh play or a stop) the title     *)
(* lists sent upstream are monotonic: each one contains every edition of   *)
(* the one sent before it (it grows or reorders, it never shrinks).        *)
(***************************************************************************)
C25_PublishedListsGrow ==
    \A i \in 1..(Len(hist.pubs) - 1) :
        TitleEditions(hist.pubs[i]) \subseteq TitleEditions(hist.pubs[i + 1])

\* a second list was sent whose new title was sorted ahead of the old one
C25_Witness ==
    /\ Len(hist.pubs) = 2
    /\ Len(hist.pubs[1]) = 1 /\ Len(hist.pubs[2]) = 2
    /\ hist.pubs[2][2].edition = hist.pubs[1][1].edition
    /\ hist.pubs[2] \in PublishedLists

(***************************************************************************)
(* C26  A scan that adds no new edition (no match, or only editions that   *)
(* are in the list already) sends nothing and leaves the title list, with  *)
(* every displayIndex, isMain and durationSeconds, unchanged; a list is    *)
(* sent exactly when a scan adds at least one new edition, and it is the   *)
(* list as it then stands.                                                 *)
(***************************************************************************)
\* the texts scanned in this step: the output buffers that have grown
ScannedTexts ==
    {procs'[p].stdoutBuffer :
        p \in {q \in ProcIds : procs'[q].stdoutBuffer # procs[q].stdoutBuffer}}
      \cup {procs'[p].stderrBuffer :
        p \in {q \in ProcIds : procs'[q].stderrBuffer # procs[q].stderrBuffer}}

NewEditions(text) ==
    {Matches(text, 1)[k].edition : k \in 1..Len(Matches(text, 1))}
        \ TitleEditions(blurayTitles)

C26_PublishedExactlyOnNewEdition ==
    [][\A text \in ScannedTexts :
          IF NewEditions(text) = {}
            THEN out' = << >> /\ blurayTitles' = blurayTitles
            ELSE /\ out' = << <<"bluray-titles", blurayTitles'>> >>
                 /\ TitleEditions(blurayTitles')
                      = TitleEditions(blurayTitles) \cup NewEditions(text)]_vars

\* the last step was a scan of a text whose only announcement was in the
\* list already: nothing was sent and the list still holds its one title
C26_Witness ==
    \E p \in ProcIds :
        /\ procs[p].st = "running"
        /\ procs[p].stdoutBuffer = AnnounceLong \o NoiseLine
        /\ procs[p].stdoutPipe = << >> /\ procs[p].stderrPipe = << >>
        /\ procs[p].stderrBuffer = << >>
        /\ out = << >>
        /\ Len(blurayTitles) = 1
        /\ blurayTitles[1].isMain /\ blurayTitles[1].displayIndex = 1

(***************************************************************************)
(* C27  The cache size and read-ahead that take effect in the spawned      *)
(* argument vector are chosen from the size of the input: 150M/20s below   *)
(* 5GB, 300M/40s from 5GB to 10GB, 500M/60s above 10GB, for disc images as *)
(* well as plain files, and 200M/30s when the size cannot be determined;   *)
(* the vector carries one tier only.                                       *)
(***************************************************************************)
MaxBytesFlags ==
    {"--demuxer-max-bytes=150M", "--demuxer-max-bytes=200M",
     "--demuxer-max-bytes=300M", "--demuxer-max-bytes=500M"}

ReadaheadFlags ==
    {"--demuxer-readahead-secs=20", "--demuxer-readahead-secs=30",
     "--demuxer-readahead-secs=40", "--demuxer-readahead-secs=60"}

Occurrences(args, flags) == {i \in 1..Len(args) : args[i][1] \in flags}

\* mpv takes the last occurrence of an option
Effective(args, flags) ==
    LET at == Occurrences(args, flags)
    IN  IF at = {} THEN "none"
        ELSE args[CHOOSE i \in at : \A j \in at : j <= i][1]

TierOfSize(size) ==
    IF size < 0 THEN <<"--demuxer-max-bytes=200M", "--demuxer-readahead-secs=30">>
    ELSE IF size > 10 * 1024
      THEN <<"--demuxer-max-bytes=500M", "--demuxer-readahead-secs=60">>
    ELSE IF size > 5 * 1024
      THEN <<"--demuxer-max-bytes=300M", "--demuxer-readahead-secs=40">>
    ELSE <<"--demuxer-max-bytes=150M", "--demuxer-readahead-secs=20">>

EffectiveTier(args) ==
    <<Effective(args, MaxBytesFlags), Effective(args, ReadaheadFlags)>>

C27_CacheTierFromSize ==
    spawned.proc # Null =>
        /\ EffectiveTier(spawned.args) = TierOfSize(StatSizeMiB(spawned.source))
        /\ Cardinality(Occurrences(spawned.args, MaxBytesFlags)) = 1
        /\ Cardinality(Occurrences(spawned.args, ReadaheadFlags)) = 1

\* the part about the tier in effect, for sources that are not disc images
C27_PlainFileTierFromSize ==
    (spawned.proc # Null /\ ~isIsoPath(spawned.source)) =>
        EffectiveTier(spawned.args) = TierOfSize(StatSizeMiB(spawned.source))

\* the tier in effect for a disc image of more than 10GB
C27_LargeImageTier ==
    (spawned.proc # Null /\ isIsoPath(spawned.source)
        /\ StatSizeMiB(spawned.source) > 10 * 1024) =>
        EffectiveTier(spawned.args) = TierOfSize(StatSizeMiB(spawned.source))

(***************************************************************************)
(* C28  A source whose name ends in .iso (in any case) is started in       *)
(* bluray mode (a bluray-device argument with the path, bd://longest as    *)
(* the locator, the disc-device memory set to the path) when its size is   *)
(* strictly above 10GB, and in DVD mode (a dvd-device argument with the    *)
(* path, dvd://longest, the memory cleared) when its size is at or below   *)
(* 10GB; any other source is started as a plain file: the literal path is  *)
(* the last argument and the memory is cleared.                            *)
(***************************************************************************)
HasIsoExtension(path) == path # << >> /\ path[Len(path)] \in {".iso", ".ISO"}

LastArg(args) == args[Len(args)]

StartedAsBluray(args, path, device) ==
    /\ <<"--bluray-device=", path>> \in Range(args)
    /\ ~HasArg(args, "--dvd-device=")
    /\ LastArg(args) = <<"bd://longest", << >> >>
    /\ device = path

StartedAsDvd(args, path, device) ==
    /\ <<"--dvd-device=", path>> \in Range(args)
    /\ ~HasArg(args, "--bluray-device=")
    /\ LastArg(args) = <<"dvd://longest", << >> >>
    /\ device = NoPath

StartedAsFile(args, path, device) ==
    /\ ~HasArg(args, "--bluray-device=") /\ ~HasArg(args, "--dvd-device=")
    /\ LastArg(args) = <<"", path>>
    /\ device = NoPath

FiredTimers == timers \ timers'
ScheduledTimers == timers' \ timers
NewSocks == DOMAIN socks' \ DOMAIN socks

C29_AtMost41Attempts ==
    [][/\ \A s \in NewSocks :
            /\ s[2] \in 0..40
            /\ FiredTimers = {[chain |-> s[1], retries |-> s[2]]}
            /\ s[2] > 0 => socks[<<s[1], s[2] - 1>>].st = "refused"
       /\ \A c \in ProcIds : Cardinality({s \in DOMAIN socks' : s[1] = c}) <= 41
       /\ \A t \in ScheduledTimers :
            t.retries > 0 =>
              /\ socks[<<t.chain, t.retries - 1>>].st = "connecting"
              /\ socks'[<<t.chain, t.retries - 1>>].st = "refused"
       /\ \A t \in FiredTimers :
            IF t.retries > 40
              THEN /\ t.retries = 41
                   /\ NewSocks = {} /\ socks' = socks /\ ipcClient' = ipcClient
                   /\ timers' = timers \ {t}
                   /\ \A u \in timers' : u.chain # t.chain
              ELSE NewSocks = {<<t.chain, t.retries>>}]_vars

\* the 41st attempt has been refused and the chain has given up while the
\* process is still running: the handle names the last refused socket
C29_Witness ==
    /\ Len(procs) = 1 /\ procs[1].st = "running"
    /\ Cardinality(SocksOf(1)) = 41
    /\ ipcClient = <<1, 40>> /\ socks[<<1, 40>>].st = "refused"
    /\ timers = {}

(***************************************************************************)
(* C30  For any diagnostic text of one output stream and any way of        *)
(* splitting it into reads (a split in the middle of an announcement       *)
(* included), the titles held after a read are those a scan of the whole   *)
(* text received so far, taken at once, gives: so after the last read      *)
(* they are those of the whole text.                                       *)
(***************************************************************************)
\* the text as one read of all of it decodes it: a character split between
\* two reads was decoded as two U+FFFD
RECURSIVE AtOnce(_)
AtOnce(text) ==
    IF Len(text) >= 2 /\ text[1] = "U+FFFD" /\ text[2] = "U+FFFD"
      THEN <<"U+00E9">> \o AtOnce(SubSeq(text, 3, Len(text)))
    ELSE IF text = << >> THEN << >>
    ELSE <<text[1]>> \o AtOnce(Tail(text))

\* the last byte read was the first byte of a character
MidCharacter(text) ==
    /\ text # << >> /\ text[Len(text)] = "U+FFFD"
    /\ Cardinality({i \in 1..Len(text) : text[i] = "U+FFFD"}) % 2 = 1

ScanAtOnce(text) == ParseBlurayTitles(<< >>, text).titles

C30_SplitReadsSameTitles ==
    \A p \in ProcIds :
        (procs[p].st = "running" /\ ~MidCharacter(procs[p].stdoutBuffer)) =>
            Range(blurayTitles) = Range(ScanAtOnce(AtOnce(procs[p].stdoutBuffer)))

\* one announcement has been read and scanned, and the reads have split
\* the next one in its middle: its first four pieces are in the buffer
C30_Witness ==
    \E p \in ProcIds :
        /\ procs[p].st = "running"
        /\ procs[p].stdoutBuffer = AnnounceShort \o SubSeq(AnnounceLong, 1, 4)
        /\ procs[p].stdoutPipe = SubSeq(AnnounceLong, 5, Len(AnnounceLong))
        /\ Len(blurayTitles) = 1

(***************************************************************************)
(* C31  An accepted switch-title(edition) request spawns the player on the *)
(* disc device remembered at the request, with one edition selector, equal *)
(* to the requested edition, for every edition id, 0 included; a fresh     *)
(* play request never passes an edition selector.                          *)
(***************************************************************************)
EditionSelectors(args) ==
    {args[i][2] : i \in {k \in 1..Len(args) : args[k][1] = "--edition="}}

SelectorCount(args) ==
    Cardinality({k \in 1..Len(args) : args[k][1] = "--edition="})

C31_SwitchSpawnsRequestedEdition ==
    [][/\ SwitchAccepted =>
            /\ procs'[Len(procs')].path = currentBlurayDevice
            /\ procs'[Len(procs')].edition \in SwitchEditions
       /\ \A r \in ProcIds :
            (procs[r].st = "settle" /\ procs'[r].st = "running") =>
              /\ spawned'.proc = r
              /\ spawned'.source = procs[r].path
              /\ <<"--bluray-device=", procs[r].path>> \in Range(spawned'.args)
              /\ SelectorCount(spawned'.args) = 1
              /\ EditionSelectors(spawned'.args)
                    = {<<IF procs[r].edition = 0 THEN "0" ELSE "1">>}
       /\ (FreshPlay /\ spawned'.proc # spawned.proc) =>
              SelectorCount(spawned'.args) = 0]_vars

\* the player was spawned for a switch to edition 0 of the remembered image
C31_Witness ==
    /\ spawned.proc = 2
    /\ procs[2].st = "running"
    /\ spawned.source = BdIso
    /\ <<"--edition=", <<"0">> >> \in Range(spawned.args)
    /\ currentBlurayDevice = BdIso

(***************************************************************************)
(* C32  After the player process of a bluray session has exited, a         *)
(* switch-title request is rejected: it returns false and spawns nothing,  *)
(* as when no play request was ever made; a disc device is on record only  *)
(* while a session started in bluray mode exists.                          *)
(***************************************************************************)
SessionExists ==
    \/ mpvProcess # Null
    \/ \E p \in ProcIds : procs[p].st = "settle"

C32_NoSwitchAfterExit ==
    [][/\ (call'.op = "switch-title" /\ hist.idle) =>
            /\ call'.ret = "false"
            /\ procs' = procs
       /\ currentBlurayDevice' # NoPath => SessionExists']_vars

\* the part that holds: a request made before any play, or after a stop,
\* is rejected and spawns nothing
C32_NoSwitchWithoutDevice ==
    [][(call'.op = "switch-title" /\ currentBlurayDevice = NoPath) =>
            /\ call'.ret = "false"
            /\ procs' = procs]_vars

(***************************************************************************)
(* C33  The 'exit' callback of a process that a new play or switch-title   *)
(* request has killed, delivered after the new process was spawned, does   *)
(* not clear the process handle of the new process and does not destroy    *)
(* the channel of the new session: an exit touches only the handles of     *)
(* the process that exited.                                                *)
(***************************************************************************)
StaleExits ==
    {p \in ProcIds : /\ procs[p].st = "killed" /\ procs'[p].st = "exited"
                     /\ mpvProcess # Null /\ mpvProcess # p}

C33_StaleExitLeavesNewSession ==
    [][StaleExits # {} =>
          /\ mpvProcess' = mpvProcess
          /\ ipcClient' = ipcClient
          /\ socks' = socks]_vars

(***************************************************************************)
(* C34  A stop handled while a switch-title request is suspended in its    *)
(* settle wait abandons the switch: after the stop no process is spawned,  *)
(* the disc-device memory stays cleared and isPlayingContent stays false   *)
(* until a new play or switch-title request is made.                       *)
(***************************************************************************)
\* stopped: only a stop leaves isPlayingContent false and no device on
\* record, and any later play or accepted switch-title ends that
Stopped == ~isPlayingContent /\ currentBlurayDevice = NoPath

C34_StopAbandonsSwitch ==
    [][(Stopped /\ ~FreshPlay /\ ~SwitchAccepted) =>
          /\ Spawned(procs') = Spawned(procs)
          /\ currentBlurayDevice' = NoPath
          /\ ~isPlayingContent']_vars

(***************************************************************************)
(* C35  After a stop the channel handle stays null and no connection       *)
(* attempt is made until the next play or switch-title request, even when  *)
(* the stop arrives while the connect delay or a retry timer of the        *)
(* stopped session is pending; no 'mpv-ready' follows a stop without a     *)
(* new request.                                                            *)
(***************************************************************************)
C35_NoConnectAfterStop ==
    [][(~isPlayingContent /\ ~FreshPlay /\ ~SwitchAccepted) =>
          /\ ipcClient' = NoSock
          /\ NewSocks = {}
          /\ ~ReadySent(out')]_vars

\* the part about the ready event, for one session
C35_NoReadyAfterStop ==
    [][(~isPlayingContent /\ ~FreshPlay /\ ~SwitchAccepted) =>
          ~ReadySent(out')]_vars

(***************************************************************************)
(* C36  Each complete inbound line received on a channel produces at most  *)
(* one upstream event: a channel never has more than one 'data' handler,   *)
(* the decode buffer is never shared by two handlers, and the handler and  *)
(* the subscriptions installed on a connection success are installed on    *)
(* the socket that has connected.                                          *)
(***************************************************************************)
\* the bytes read from socket s in this step
BytesRead(s) ==
    SubSeq(socks[s].wire, 1, Len(socks[s].wire) - Len(socks'[s].wire))

LinesEnded(bytes) == Cardinality({i \in 1..Len(bytes) : bytes[i] = NL})

Listening(ss) == {s \in DOMAIN ss : ss[s].st = "open" /\ ss[s].handlers > 0}

OneHandlerPerChannel ==
    /\ \A s \in DOMAIN socks' : socks'[s].handlers <= 1
    /\ Cardinality(Listening(socks')) <= 1
    /\ \A s \in JustConnected :
          /\ socks'[s].handlers = 1
          /\ Len(socks'[s].sent) = Len(socks[s].sent) + Len(ObservedProps)
          /\ \A c \in DOMAIN socks : c # s => socks'[c] = socks[c]
    /\ \A s \in DOMAIN socks :
          (socks[s].st = "open" /\ Len(socks'[s].wire) < Len(socks[s].wire)) =>
              Len(out') <= LinesEnded(BytesRead(s))

C36_OneEventPerLine == [][OneHandlerPerChannel]_vars

\* the same while a single request has been made
C36_OneEventPerLineOfOneSession ==
    [][Len(procs) = 1 => OneHandlerPerChannel]_vars

(***************************************************************************)
(* C37  Every title in the list of the current session comes from the      *)
(* output of the current session's process: output of an earlier, already  *)
(* killed process that is read after a later play request adds nothing to  *)
(* the list and nothing is sent for it.                                    *)
(***************************************************************************)
\* the processes whose output is scanned in this step
Scanned ==
    {p \in ProcIds : \/ procs'[p].stdoutBuffer # procs[p].stdoutBuffer
                     \/ procs'[p].stderrBuffer # procs[p].stderrBuffer}

C37_TitlesOfCurrentProcessOnly ==
    [][\A p \in Scanned :
          (procs[p].st \in {"killed", "exited"} /\ mpvProcess # p) =>
              /\ blurayTitles' = blurayTitles
              /\ PublishedLists' = {}]_vars

(***************************************************************************)
(* C38  sendCmd returns true only when the channel is connected to the     *)
(* player: while the socket of the channel has been created and its        *)
(* connection has not succeeded yet, sendCmd returns false and the command *)
(* is not queued on the socket.                                            *)
(***************************************************************************)
ChannelConnecting == ipcClient # NoSock /\ socks[ipcClient].st = "connecting"

C38_SendCmdOnlyWhenConnected ==
    [][call'.op = "mpv-cmd" =>
          /\ call'.ret = "true" => ChannelConnected(ipcClient, socks)
          /\ ChannelConnecting =>
                /\ call'.ret = "false"
                /\ socks' = socks]_vars

(***************************************************************************)
(* C39  In every reachable state isPlayingContent is true only if a        *)
(* player process handle exists: after the player has exited on its own    *)
(* isPlayingContent is false, so a request to close the window is not      *)
(* answered with 'confirm-exit' when nothing is playing.                   *)
(***************************************************************************)
ConfirmAsked(msgs) == <<"confirm-exit">> \in Range(msgs)

C39_PlayingOnlyWithProcess ==
    [][/\ isPlayingContent' => mpvProcess' # Null
       /\ ConfirmAsked(out') => mpvProcess # Null]_vars

\* the part that holds: the close is intercepted exactly when the flag is set
C39_ConfirmFollowsFlag ==
    [][call'.op = "win-close" => (ConfirmAsked(out') <=> isPlayingContent)]_vars

====
